---- MODULE Spec2Model ----
(***************************************************************************)
(* The incremental task indexer (class Cache) of obsidian-tasks: the       *)
(* shared TaskBlock list, the mutex that guards it, the notification       *)
(* handlers, the full-vault load and indexFile.                            *)
(*                                                                         *)
(* JavaScript runs one callback at a time, so every action below is one    *)
(* run-to-completion stretch of code: a notification handler, a callback   *)
(* the mutex starts, or the continuation of indexFile after its await.     *)
(***************************************************************************)
EXTENDS Integers, Sequences, FiniteSets, TLC

VARIABLES
    docs,                    \* the vault: path -> version of the file there, 0 = no file
    taskblocks,              \* Cache.taskblocks
    state,                   \* Cache.state
    loadedAfterFirstResolve, \* Cache.loadedAfterFirstResolve
    mutexQueue,              \* callbacks waiting in tasksMutex.runExclusive
    mutexHolder,             \* 0 = tasksMutex free, g = held by the g-th loadVault
    reads,                   \* indexFile calls suspended on vault.cachedRead
    lastPub,                 \* the last triggerCacheUpdate: what it carried
    lastOp,                  \* the last operation that ran to its end
    counts,                  \* history: loadVault calls, loads begun, events received
    pure,                    \* the run of indexFile on its own (SpecIndexFile)
    query,                   \* a Query, the blocks it is run on, the results (SpecQuery)
    form                     \* the edit form of a task and what it submits (SpecEditTask)

vars == << docs, taskblocks, state, loadedAfterFirstResolve, mutexQueue,
           mutexHolder, reads, lastPub, lastOp, counts, pure, query, form >>

(***************************************************************************)
(* Bounds                                                                  *)
(***************************************************************************)
\* lines of a document are numbered 0 .. NumLines - 1
NumLines == 3
\* notifications of document changes the environment sends in one run
MaxEvents == 2
\* 'resolved' notifications the environment sends in one run
MaxResolved == 2

\* vault.getMarkdownFiles lists the files in this order
PathSeq == << "a.md", "b.md" >>
Paths == { PathSeq[i] : i \in 1..Len(PathSeq) }
\* the path indexFile is run on in SpecIndexFile
PurePath == "a.md"

(***************************************************************************)
(* Documents: what metadataCache.getFileCache and vault.cachedRead return  *)
(***************************************************************************)
\* ListItemCache.parent of an item with no parent, as the code tests it
NoParent == -1

Sec(t, s, e) == [type |-> t, start |-> s, end |-> e]
Item(l, par, chk) == [line |-> l, parent |-> par, task |-> chk]

\* a line that Task.fromLine does not turn into a Task
PlainText == "text"
HeadingText == "# Heading"
\* the text of the checklist line at line l (lines differ, so tasks do)
TaskText(l) == IF l = 0 THEN "- [ ] alpha"
               ELSE IF l = 1 THEN "- [ ] beta"
               ELSE IF l = 2 THEN "- [ ] gamma" ELSE "- [ ] delta"
TaskLines == { TaskText(l) : l \in 0..(NumLines - 1) }

\* a text of NumLines lines: the given lines, then plain text
Pad(ls) == [ i \in 1..NumLines |-> IF i <= Len(ls) THEN ls[i] ELSE PlainText ]

\* The file versions the vault holds in Spec. A version is what the metadata
\* cache and the file hold together: cache "absent" is getFileCache = null,
\* "nolist" is a file cache without listItems.
Versions == <<
    \* 1: a file the metadata cache has not parsed yet
    [cache |-> "absent", sections |-> <<>>, items |-> <<>>, lines |-> Pad(<<>>)],
    \* 2: a file without any list
    [cache |-> "nolist", sections |-> << Sec("paragraph", 0, NumLines - 1) >>,
     items |-> <<>>, lines |-> Pad(<<>>)],
    \* 3: two top-level tasks
    [cache |-> "items", sections |-> << Sec("list", 0, 1) >>,
     items |-> << Item(0, NoParent, TRUE), Item(1, NoParent, TRUE) >>,
     lines |-> Pad(<< TaskText(0), TaskText(1) >>)],
    \* 4: a task and its child
    [cache |-> "items", sections |-> << Sec("list", 0, 1) >>,
     items |-> << Item(0, NoParent, TRUE), Item(1, 0, TRUE) >>,
     lines |-> Pad(<< TaskText(0), TaskText(2) >>)],
    \* 5: a checklist line that is no Task (no global filter), then a task
    [cache |-> "items", sections |-> << Sec("list", 0, 1) >>,
     items |-> << Item(0, NoParent, TRUE), Item(1, NoParent, TRUE) >>,
     lines |-> Pad(<< PlainText, TaskText(1) >>)]
>>
NumVersions == Len(Versions)
NoFile == 0

(***************************************************************************)
(* Task and TaskBlock. A TaskBlock is the sequence of its tasks.           *)
(***************************************************************************)
NoHeader == "null"

\* Task.fromLine: <<>> for null, << task >> for a Task
fromLine(line, path, sectionStart, sectionIndex, precedingHeader, id, parent) ==
    IF line \in TaskLines
    THEN << [path |-> path, description |-> line, sectionStart |-> sectionStart,
             sectionIndex |-> sectionIndex, precedingHeader |-> precedingHeader,
             id |-> id, parent |-> parent] >>
    ELSE <<>>

Min(S) == CHOOSE x \in S : \A y \in S : x <= y
Max(S) == CHOOSE x \in S : \A y \in S : x >= y

NoSection == Sec("null", -1, -1)

\* Cache.getSection: the first section of type list whose lines hold the item
getSection(lineNumberTask, sections) ==
    LET hits == { i \in 1..Len(sections) :
                    /\ sections[i].type = "list"
                    /\ sections[i].start <= lineNumberTask
                    /\ sections[i].end >= lineNumberTask }
    IN  IF hits = {} THEN NoSection ELSE sections[Min(hits)]

\* Cache.getPrecedingHeader: the last heading section met before the loop
\* breaks at a heading that starts after the item, read through the regex
getPrecedingHeader(lineNumberTask, sections, fileLines) ==
    LET heads == { i \in 1..Len(sections) : sections[i].type = "heading" }
        past  == { i \in heads : sections[i].start > lineNumberTask }
        stop  == IF past = {} THEN Len(sections) + 1 ELSE Min(past)
        cands == { i \in heads : i < stop }
    IN  IF cands = {} THEN NoHeader
        ELSE LET linePrecedingHeader == fileLines[sections[Max(cands)].start + 1]
             IN  IF linePrecedingHeader = HeadingText
                 THEN linePrecedingHeader ELSE NoHeader

\* the filter with TRUE for a block without tasks
KeepsEveryOtherBlock(taskBlock, path) ==
    IF Len(taskBlock) > 0 THEN taskBlock[1].path # path ELSE TRUE

\* the filter comparing with the wrong operator
KeepsTheFile(taskBlock, path) ==
    IF Len(taskBlock) > 0 THEN taskBlock[1].path = path ELSE FALSE

\* the filter of the delete handler and of indexFile: TRUE keeps the block

KeepBlock(taskBlock, path) ==
    IF Len(taskBlock) > 0 THEN taskBlock[1].path # path ELSE FALSE

RemoveFile(blocks, path) ==
    SelectSeq(blocks, LAMBDA tb : KeepBlock(tb, path))

(***************************************************************************)
(* The scan loop of indexFile. TaskBlock objects are numbered: heap[o] is  *)
(* the tasks of object o, obj the object newTaskBlock refers to, out the   *)
(* objects pushed on this.taskblocks, in order. A pushed object that is    *)
(* still newTaskBlock goes on receiving tasks.                             *)
(***************************************************************************)
ScanInit ==
    [section |-> NoSection, sectionIndex |-> 0, currentID |-> 0,
     heap |-> << <<>> >>, obj |-> 1, first |-> TRUE, out |-> <<>>]

\* the grouping without the test of the parent: every task a block
StoreTaskAlone(st, task, parent, isLast) ==
    LET grouped ==
            IF ~st.first
            THEN [st EXCEPT !.out = Append(@, st.obj),
                            !.heap = Append(@, << task >>),
                            !.obj = Len(st.heap) + 1]
            ELSE [st EXCEPT !.heap[st.obj] = Append(@, task)]
        counted == [grouped EXCEPT !.sectionIndex = @ + 1]
    IN  IF isLast THEN [counted EXCEPT !.out = Append(@, counted.obj)]
        ELSE counted

\* the part of the loop body after a Task was parsed
StoreTask(st, task, parent, isLast) ==
    LET grouped ==
            IF parent = NoParent /\ ~st.first
            THEN [st EXCEPT !.out = Append(@, st.obj),
                            !.heap = Append(@, << task >>),
                            !.obj = Len(st.heap) + 1]
            ELSE [st EXCEPT !.heap[st.obj] = Append(@, task)]
        counted == [grouped EXCEPT !.sectionIndex = @ + 1]
    IN  IF isLast THEN [counted EXCEPT !.out = Append(@, counted.obj)]
        ELSE counted

\* one pass of the loop body, on listItems[i]
ScanItem(st, i, path, listItems, sections, fileLines) ==
    LET listItem == listItems[i]
        moved == st.section = NoSection \/ st.section.end < listItem.line
        s1 == IF moved
              THEN [st EXCEPT !.section = getSection(listItem.line, sections),
                              !.currentID = 0, !.sectionIndex = 0,
                              !.first = TRUE]
              ELSE st
        parsed == fromLine(fileLines[listItem.line + 1], path,
                           s1.section.start, s1.sectionIndex,
                           getPrecedingHeader(listItem.line, sections, fileLines),
                           s1.currentID, listItem.parent)
        s2 == IF parsed # <<>>
              THEN StoreTask(s1, parsed[1], listItem.parent, i = Len(listItems))
              ELSE s1
    IN  IF ~listItem.task THEN st
        ELSE IF s1.section = NoSection
             THEN [s1 EXCEPT !.out = Append(@, s1.obj)]
             ELSE [s2 EXCEPT !.first = FALSE, !.currentID = @ + 1]

RECURSIVE ScanLoop(_, _, _, _, _, _)
ScanLoop(st, i, path, listItems, sections, fileLines) ==
    IF i > Len(listItems) THEN st
    ELSE ScanLoop(ScanItem(st, i, path, listItems, sections, fileLines),
                  i + 1, path, listItems, sections, fileLines)

\* the blocks the loop pushed, each with the tasks its object ends up with
ScanBlocks(path, listItems, sections, fileLines) ==
    LET st == ScanLoop(ScanInit, 1, path, listItems, sections, fileLines)
    IN  [ k \in 1..Len(st.out) |-> st.heap[st.out[k]] ]

\* indexFile returning early also when the file cache has no listItems
IndexFileBodyNeedsItems(blocks, path, meta, fileLines) ==
    IF meta.cache = "nolist" THEN blocks
    ELSE RemoveFile(blocks, path)
            \o ScanBlocks(path, meta.items, meta.sections, fileLines)

\* indexFile from the removal of the file's blocks to the end of the loop;
\* meta is the file cache taken before the await, fileLines the text read
IndexFileBody(blocks, path, meta, fileLines) ==
    RemoveFile(blocks, path)
        \o ScanBlocks(path,
                      IF meta.cache = "nolist" THEN <<>> ELSE meta.items,
                      meta.sections, fileLines)

\* the rename handler's map callback: the block with the new path is built
\* and left behind, the callback returns the block it was given
RenameBlock(taskBlock, oldPath, newPath) ==
    LET newTaskBlock ==
            IF Len(taskBlock) > 0 /\ taskBlock[1].path = oldPath
            THEN [ i \in 1..Len(taskBlock) |->
                     [taskBlock[i] EXCEPT !.path = newPath] ]
            ELSE <<>>
    IN  taskBlock

RenameFile(blocks, oldPath, newPath) ==
    [ i \in 1..Len(blocks) |-> RenameBlock(blocks[i], oldPath, newPath) ]

(***************************************************************************)
(* The Cache object                                                        *)
(***************************************************************************)
\* A callback or a suspended indexFile holds the TFile it was given and reads
\* file.path when it runs. The host keeps one TFile for a file and rewrites
\* its path when the file is renamed: file is the path the TFile has now,
\* live whether the TFile is the one of a file of the vault. oldPath is the
\* string the rename handler was given.
Callback(op, file, oldPath, live) ==
    [op |-> op, file |-> file, oldPath |-> oldPath, live |-> live]
LoadVaultCallback == Callback("load", "", "", FALSE)

\* the TFile objects held, after the file at path was renamed to newPath
Moved(held, path, newPath) ==
    [ i \in 1..Len(held) |->
        IF held[i].live /\ held[i].file = path
        THEN [held[i] EXCEPT !.file = newPath] ELSE held[i] ]

\* the TFile objects held, after the file at path was deleted
Gone(held, path) ==
    [ i \in 1..Len(held) |->
        IF held[i].live /\ held[i].file = path
        THEN [held[i] EXCEPT !.live = FALSE] ELSE held[i] ]

NoPub == [state |-> "none", held |-> TRUE, afterWarm |-> FALSE]
\* an operation that ended: its kind, its path, the file cache indexFile
\* found, whether it called notifySubscribers, and how many blocks, and how
\* many of them without tasks, the index held when it began to change it
Ended(op, path, cache, pub) ==
    [op |-> op, path |-> path, cache |-> cache, pub |-> pub,
     before |-> Len(taskblocks),
     empties |-> Len(SelectSeq(taskblocks, LAMBDA tb : tb = <<>>))]
NoOp == [op |-> "none", path |-> "", cache |-> "", pub |-> FALSE,
         before |-> 0, empties |-> 0]
PureOff == [phase |-> "off"]
\* no Query is built outside SpecQuery
QueryOff == [phase |-> "off"]
\* no edit form is open outside SpecEditTask
FormOff == [phase |-> "off"]

\* Cache.notifySubscribers, called by an operation that holds the mutex or not
Notify(st, held) ==
    lastPub' = [state |-> st, held |-> held,
                afterWarm |-> lastPub.afterWarm \/ lastPub.state = "Warm"]

\* getFileCache(file): the cache state of the file at path now
CacheOf(path) ==
    IF docs[path] = NoFile THEN "absent" ELSE Versions[docs[path]].cache

Remove(seq, i) == SubSeq(seq, 1, i - 1) \o SubSeq(seq, i + 1, Len(seq))

\* the versions a vault may hold when the plugin is constructed
InitVersions == {NoFile, 1, 3}

\* the constructor: fields set, handlers subscribed, loadVault called, which
\* puts its callback on the mutex
Init ==
    /\ docs \in [Paths -> InitVersions]
    /\ taskblocks = <<>>
    /\ state = "Cold"
    /\ loadedAfterFirstResolve = FALSE
    /\ mutexQueue = << LoadVaultCallback >>
    /\ mutexHolder = 0
    /\ reads = <<>>
    /\ lastPub = NoPub
    /\ lastOp = NoOp
    /\ counts = [loadCalls |-> 1, loadsBegun |-> 0, resolved |-> 0, events |-> 0]
    /\ pure = PureOff
    /\ query = QueryOff
    /\ form = FormOff

\* The callback of the constructor's loadVault starts as a microtask, before
\* the host delivers any notification.
Listening == counts.loadsBegun > 0

Event == /\ Listening
         /\ counts.events < MaxEvents
         /\ counts' = [counts EXCEPT !.events = @ + 1]

\* runExclusive(callback): the callback waits for the mutex
RunExclusive(cb) == mutexQueue' = Append(mutexQueue, cb)

\* the test of the 'resolved' handler
EveryResolveLoads(loaded) == TRUE

ShouldLoad(loaded) == ~loaded

\* the 'resolved' handler without the line that sets the flag
ResolvedLeavesFlag ==
    /\ counts.loadsBegun > 0
    /\ counts.resolved < MaxResolved
    /\ RunExclusive(LoadVaultCallback)
    /\ counts' = [counts EXCEPT !.resolved = @ + 1, !.loadCalls = @ + 1]
    /\ UNCHANGED << docs, taskblocks, state, loadedAfterFirstResolve,
                    mutexHolder, reads, lastPub, lastOp, pure, query,
                    form >>

\* metadataCache 'resolved'
Resolved ==
    /\ Listening
    /\ counts.resolved < MaxResolved
    /\ IF ShouldLoad(loadedAfterFirstResolve)
       THEN /\ loadedAfterFirstResolve' = TRUE
            /\ RunExclusive(LoadVaultCallback)
            /\ counts' = [counts EXCEPT !.resolved = @ + 1, !.loadCalls = @ + 1]
       ELSE /\ counts' = [counts EXCEPT !.resolved = @ + 1]
            /\ UNCHANGED << loadedAfterFirstResolve, mutexQueue >>
    /\ UNCHANGED << docs, taskblocks, state, mutexHolder, reads, lastPub,
                    lastOp, pure, query,
                    form >>

\* a file is written and the metadata cache, having parsed it, sends 'changed'
Changed(p, v) ==
    /\ Event
    /\ docs[p] # NoFile
    /\ Versions[v].cache # "absent"
    /\ docs' = [docs EXCEPT ![p] = v]
    /\ RunExclusive(Callback("index", p, "", TRUE))
    /\ UNCHANGED << taskblocks, state, loadedAfterFirstResolve, mutexHolder,
                    reads, lastPub, lastOp, pure, query,
                    form >>

\* a file appears and the vault sends 'create'
Created(p, v) ==
    /\ Event
    /\ docs[p] = NoFile
    /\ docs' = [docs EXCEPT ![p] = v]
    /\ RunExclusive(Callback("index", p, "", TRUE))
    /\ UNCHANGED << taskblocks, state, loadedAfterFirstResolve, mutexHolder,
                    reads, lastPub, lastOp, pure, query,
                    form >>

\* a file goes away and the vault sends 'delete'
Deleted(p) ==
    /\ Event
    /\ docs[p] # NoFile
    /\ docs' = [docs EXCEPT ![p] = NoFile]
    /\ mutexQueue' = Append(Gone(mutexQueue, p), Callback("delete", p, "", FALSE))
    /\ reads' = Gone(reads, p)
    /\ UNCHANGED << taskblocks, state, loadedAfterFirstResolve, mutexHolder,
                    lastPub, lastOp, pure, query,
                    form >>

\* a file moves and the vault sends 'rename' with the file and its old path
Renamed(oldPath, p) ==
    /\ Event
    /\ docs[oldPath] # NoFile
    /\ docs[p] = NoFile
    /\ docs' = [docs EXCEPT ![oldPath] = NoFile, ![p] = docs[oldPath]]
    /\ mutexQueue' = Append(Moved(mutexQueue, oldPath, p),
                            Callback("rename", p, oldPath, TRUE))
    /\ reads' = Moved(reads, oldPath, p)
    /\ UNCHANGED << taskblocks, state, loadedAfterFirstResolve, mutexHolder,
                    lastPub, lastOp, pure, query,
                    form >>

\* the mutex is free and starts the callback that waited longest
Starts(op) ==
    /\ mutexHolder = 0
    /\ mutexQueue # <<>>
    /\ Head(mutexQueue).op = op
    /\ mutexQueue' = Tail(mutexQueue)

\* the callback of the 'changed' and 'create' handlers: it calls indexFile,
\* which runs to its await (or returns, without a file cache), and returns
\* without the promise, so that runExclusive releases the mutex
RunIndexFile ==
    /\ Starts("index")
    /\ LET file == Head(mutexQueue).file
       IN  IF CacheOf(file) = "absent"
           THEN /\ lastOp' = Ended("index", file, "absent", FALSE)
                /\ UNCHANGED reads
           ELSE /\ reads' = Append(reads, [file |-> file, meta |-> docs[file],
                                           owner |-> 0,
                                           live |-> Head(mutexQueue).live])
                /\ UNCHANGED lastOp
    /\ UNCHANGED << docs, taskblocks, state, loadedAfterFirstResolve,
                    mutexHolder, lastPub, counts, pure, query,
                    form >>

\* the callback of the 'delete' handler
RunDelete ==
    /\ Starts("delete")
    /\ taskblocks' = RemoveFile(taskblocks, Head(mutexQueue).file)
    /\ Notify(state, TRUE)
    /\ lastOp' = Ended("delete", Head(mutexQueue).file, "", TRUE)
    /\ UNCHANGED << docs, state, loadedAfterFirstResolve, mutexHolder, reads,
                    counts, pure, query,
                    form >>

\* the callback of the 'rename' handler
RunRename ==
    /\ Starts("rename")
    /\ taskblocks' = RenameFile(taskblocks, Head(mutexQueue).oldPath,
                                Head(mutexQueue).file)
    /\ Notify(state, TRUE)
    /\ lastOp' = Ended("rename", Head(mutexQueue).oldPath, "", TRUE)
    /\ UNCHANGED << docs, state, loadedAfterFirstResolve, mutexHolder, reads,
                    counts, pure, query,
                    form >>

\* the indexFile calls loadVault makes: one read for each file with a cache
LoadReads(g) ==
    LET files == SelectSeq(PathSeq, LAMBDA p : CacheOf(p) # "absent")
    IN  [ i \in 1..Len(files) |->
            [file |-> files[i], meta |-> docs[files[i]], owner |-> g,
             live |-> TRUE] ]

\* the callback of loadVault up to its await; it keeps the mutex
LoadBegin ==
    /\ Starts("load")
    /\ state' = "Initializing"
    /\ counts' = [counts EXCEPT !.loadsBegun = @ + 1]
    /\ mutexHolder' = counts.loadsBegun + 1
    /\ reads' = reads \o LoadReads(counts.loadsBegun + 1)
    /\ UNCHANGED << docs, taskblocks, loadedAfterFirstResolve, lastPub,
                    lastOp, pure, query,
                    form >>

\* loadVault without the await on Promise.all: the callback goes on to Warm
\* while the indexFile calls of the load wait on their reads
LoadFinishNoAwait ==
    /\ mutexHolder # 0
    /\ state' = "Warm"
    /\ Notify("Warm", TRUE)
    /\ mutexHolder' = 0
    /\ lastOp' = Ended("load", "", "", TRUE)
    /\ UNCHANGED << docs, taskblocks, loadedAfterFirstResolve, mutexQueue,
                    reads, counts, pure, query,
                    form >>

\* Promise.all is fulfilled: every indexFile of the load has ended
LoadFinish ==
    /\ mutexHolder # 0
    /\ \A i \in 1..Len(reads) : reads[i].owner # mutexHolder
    /\ state' = "Warm"
    /\ Notify("Warm", TRUE)
    /\ mutexHolder' = 0
    /\ lastOp' = Ended("load", "", "", TRUE)
    /\ UNCHANGED << docs, taskblocks, loadedAfterFirstResolve, mutexQueue,
                    reads, counts, pure, query,
                    form >>

\* cachedRead is fulfilled and indexFile runs from its await to its end, with
\* the path the TFile has now. The text is the text now at that path; when no
\* file is there any more, the text cached when the read was asked for.
ReadDone(i) ==
    /\ i \in 1..Len(reads)
    /\ LET r == reads[i]
           text == IF docs[r.file] # NoFile THEN docs[r.file] ELSE r.meta
       IN  /\ taskblocks' = IndexFileBody(taskblocks, r.file, Versions[r.meta],
                                          Versions[text].lines)
           /\ Notify(state, r.owner # 0 /\ r.owner = mutexHolder)
           /\ lastOp' = Ended("index", r.file, Versions[r.meta].cache, TRUE)
    /\ reads' = Remove(reads, i)
    /\ UNCHANGED << docs, state, loadedAfterFirstResolve, mutexQueue,
                    mutexHolder, counts, pure, query,
                    form >>

\* cachedRead of a file that is gone is rejected: indexFile ends there, and
\* within a load Promise.all is rejected, the callback throws and
\* runExclusive releases the mutex
ReadFail(i) ==
    /\ i \in 1..Len(reads)
    /\ docs[reads[i].file] = NoFile
    /\ reads' = Remove(reads, i)
    /\ mutexHolder' = IF reads[i].owner # 0 /\ reads[i].owner = mutexHolder
                      THEN 0 ELSE mutexHolder
    /\ lastOp' = Ended("rejected", reads[i].file,
                     Versions[reads[i].meta].cache, FALSE)
    /\ UNCHANGED << docs, taskblocks, state, loadedAfterFirstResolve,
                    mutexQueue, lastPub, counts, pure, query,
                    form >>

Next ==
    \/ Resolved
    \/ \E p \in Paths, v \in 1..NumVersions : Changed(p, v)
    \/ \E p \in Paths, v \in 1..NumVersions : Created(p, v)
    \/ \E p \in Paths : Deleted(p)
    \/ \E p, q \in Paths : Renamed(p, q)
    \/ RunIndexFile
    \/ RunDelete
    \/ RunRename
    \/ LoadBegin
    \/ LoadFinish
    \/ \E i \in 1..Len(reads) : ReadDone(i)
    \/ \E i \in 1..Len(reads) : ReadFail(i)

Spec == Init /\ [][Next]_vars

(***************************************************************************)
(* indexFile on its own: one document, drawn from every arrangement of     *)
(* list items over NumLines lines, indexed into an index that holds        *)
(* blocks of earlier runs, then indexed again.                             *)
(***************************************************************************)
\* how the sections of a document lie
Layouts == {
    << Sec("list", 0, NumLines - 1) >>,
    << Sec("heading", 0, 0), Sec("list", 1, NumLines - 1) >>,
    << Sec("list", 0, 0), Sec("heading", 1, 1), Sec("list", 2, NumLines - 1) >>,
    << Sec("callout", 0, 0), Sec("list", 1, NumLines - 1) >>,
    << Sec("list", 0, 0), Sec("callout", 1, 1), Sec("list", 2, NumLines - 1) >> }

\* what a line holds: no list item, a list item that is no checklist item,
\* a checklist item that parses to a Task, a checklist item that does not
Kinds == {"none", "plain", "task", "nonparse"}

SectionAt(layout, l) ==
    CHOOSE i \in 1..Len(layout) : layout[i].start <= l /\ l <= layout[i].end

\* list items lie in list and callout sections; the parent of an item is an
\* earlier item of its section
WellFormed(layout, kinds, parents) ==
    \A l \in 0..(NumLines - 1) :
        /\ layout[SectionAt(layout, l)].type = "heading" => kinds[l] = "none"
        /\ kinds[l] = "none" => parents[l] = NoParent
        /\ parents[l] # NoParent =>
              /\ parents[l] < l
              /\ kinds[parents[l]] # "none"
              /\ SectionAt(layout, parents[l]) = SectionAt(layout, l)

MakeDoc(layout, kinds, parents) ==
    LET all == [ i \in 1..NumLines |-> i - 1 ]
        at  == SelectSeq(all, LAMBDA l : kinds[l] # "none")
    IN  [cache |-> "items",
         sections |-> layout,
         items |-> [ i \in 1..Len(at) |->
                       Item(at[i], parents[at[i]],
                            kinds[at[i]] \in {"task", "nonparse"}) ],
         lines |-> [ i \in 1..NumLines |->
                       IF layout[SectionAt(layout, i - 1)].type = "heading"
                       THEN HeadingText
                       ELSE IF kinds[i - 1] = "task" THEN TaskText(i - 1)
                       ELSE PlainText ]]

GenDocs ==
    { MakeDoc(layout, kinds, parents) :
        << layout, kinds, parents >> \in
            { t \in Layouts \X [0..(NumLines - 1) -> Kinds]
                            \X [0..(NumLines - 1) -> {NoParent} \cup 0..(NumLines - 2)] :
                WellFormed(t[1], t[2], t[3]) } }
    \cup { Versions[1], Versions[2] }

\* what indexing version v at path leaves in an empty index
BlocksOf(path, v) ==
    IndexFileBody(<<>>, path, Versions[v], Versions[v].lines)

\* the index before the run: empty, or left by runs on this and other files
PriorIndexes ==
    LET left(path) == { <<>> } \cup { BlocksOf(path, v) : v \in 3..NumVersions }
    IN  { own \o other : own \in left(PurePath), other \in left("b.md") }
        \cup { other \o own : own \in left(PurePath), other \in left("b.md") }

\* indexFile as a whole, the read being fulfilled with the document's text
IndexFile(blocks, path, doc) ==
    IF doc.cache = "absent" THEN blocks
    ELSE IndexFileBody(blocks, path, doc, doc.lines)

PureInit ==
    /\ pure \in { [phase |-> "new", doc |-> d, prior |-> b,
                   once |-> <<>>, twice |-> <<>>] :
                    d \in GenDocs, b \in PriorIndexes }
    /\ docs = [ p \in Paths |-> NoFile ]
    /\ taskblocks = <<>>
    /\ state = "Cold"
    /\ loadedAfterFirstResolve = FALSE
    /\ mutexQueue = <<>>
    /\ mutexHolder = 0
    /\ reads = <<>>
    /\ lastPub = NoPub
    /\ lastOp = NoOp
    /\ counts = [loadCalls |-> 0, loadsBegun |-> 0, resolved |-> 0, events |-> 0]
    /\ query = QueryOff
    /\ form = FormOff

Frame == UNCHANGED << docs, taskblocks, state, loadedAfterFirstResolve,
                      mutexQueue, mutexHolder, reads, lastPub, lastOp, counts >>

\* indexFile(D) on the prior index
IndexOnce ==
    /\ pure.phase = "new"
    /\ pure' = [pure EXCEPT !.phase = "once",
                            !.once = IndexFile(pure.prior, PurePath, pure.doc)]
    /\ Frame
    /\ UNCHANGED << query, form >>

\* indexFile(D) again, D unchanged
IndexTwice ==
    /\ pure.phase = "once"
    /\ pure' = [pure EXCEPT !.phase = "twice",
                            !.twice = IndexFile(pure.once, PurePath, pure.doc)]
    /\ Frame
    /\ UNCHANGED << query, form >>

PureNext == IndexOnce \/ IndexTwice

SpecIndexFile == PureInit /\ [][PureNext]_vars

(***************************************************************************)
(* The Query and the Sort. A Task is the record of the attributes they     *)
(* read; a date is the number of its calendar day, NoDate for null.        *)
(***************************************************************************)
\* days are numbered 1 .. MaxDay
MaxDay == 3
\* tasks in one block of the blocks the filters are evaluated on
MaxTasks == 2
\* blocks in the list handed to Sort.by
MaxBlocks == 2

NoDate == 0

\* enum Priority: the string forms, ordered High < Medium < Low < None
Priority == [High |-> "1", Medium |-> "2", Low |-> "3", None |-> "4"]
Priorities == { Priority.High, Priority.Medium, Priority.Low, Priority.None }

\* the configured global filter token
globalFilter == "#task"

\* what a function returns: a value, or a TypeError raised in it
Ret(v) == [threw |-> FALSE, value |-> v]
TypeError == [threw |-> TRUE, value |-> 0]
TypeErrorB == [threw |-> TRUE, value |-> FALSE]

Sign(n) == IF n < 0 THEN -1 ELSE IF n > 0 THEN 1 ELSE 0

\* the place of a string in the order localeCompare and < put on strings
Collation ==
    [ s \in { "1", "2", "3", "4", "alpha", "Beta", "a.md", "b.md" } |->
        CASE s = "1" -> 1 [] s = "2" -> 2 [] s = "3" -> 3 [] s = "4" -> 4
          [] s = "alpha" -> 1 [] s = "Beta" -> 2
          [] s = "a.md" -> 1 [] s = "b.md" -> 2 ]

localeCompare(a, b) == Sign(Collation[a] - Collation[b])

\* String.toLocaleLowerCase on the strings of the model
toLocaleLowerCase(s) ==
    CASE s = "Beta" -> "beta"
      [] s = "ALPHA" -> "alpha"
      [] s = "# Heading" -> "# heading"
      [] s = "Head" -> "head"
      [] OTHER -> s

\* the lower-case needles of the model each lower-case haystack contains
Contained ==
    [ h \in { "alpha", "beta", "a.md", "b.md", "# heading" } |->
        CASE h = "alpha" -> { "alpha", "a" }
          [] h = "beta" -> { "a" }
          [] h = "a.md" -> { "a", "md" }
          [] h = "b.md" -> { "md" }
          [] h = "# heading" -> { "a", "head" } ]

\* Query.stringIncludesCaseInsensitive
stringIncludesCaseInsensitive(haystack, needle) ==
    toLocaleLowerCase(needle) \in Contained[toLocaleLowerCase(haystack)]

\* description.replace(globalFilter, '').trim()
WithoutGlobalFilter(description) ==
    IF description = "#task alpha" THEN "alpha" ELSE description

BaseTask ==
    [path |-> "a.md", description |-> "alpha", precedingHeader |-> NoHeader,
     status |-> "Todo", priority |-> Priority.None,
     startDate |-> NoDate, scheduledDate |-> NoDate, dueDate |-> NoDate,
     doneDate |-> NoDate, recurrence |-> FALSE, indentation |-> ""]

\* Task.urgency: priority and nearness of the due date, higher is more urgent
urgency(task) ==
    (4 - Collation[task.priority])
    + (IF task.dueDate = NoDate THEN 0 ELSE MaxDay + 1 - task.dueDate)

\* the sequences of at most n tasks of T that lie in one file
BlocksOver(T, n) ==
    UNION { { tb \in [1..k -> T] : \A i \in 1..k : tb[i].path = tb[1].path } :
            k \in 0..n }

(***************************************************************************)
(* Query text. A line is the sequence of its words, Space a run of white   *)
(* space at an end of it; a source is the sequence of its lines.           *)
(***************************************************************************)
Space == " "

RECURSIVE TrimStart(_)
TrimStart(line) ==
    IF line # <<>> /\ Head(line) = Space THEN TrimStart(Tail(line)) ELSE line

RECURSIVE TrimEnd(_)
TrimEnd(line) ==
    IF line # <<>> /\ line[Len(line)] = Space
    THEN TrimEnd(SubSeq(line, 1, Len(line) - 1)) ELSE line

\* String.trim
Trim(line) == TrimEnd(TrimStart(line))

\* the words of the model that are longer than a word they begin with
Longer ==
    { << "shortly", "short" >>, << "highest", "high" >>, << "#note", "#" >>,
      << "reversed", "reverse" >>, << "backlinks", "backlink" >> }

\* a regular expression that ends in this word matches what begins with it
StartsWith(word, prefix) == word = prefix \/ << word, prefix >> \in Longer

Rest(line, i) == SubSeq(line, i, Len(line))

\* the texts chrono reads as the days 1, 2, ...
DateTexts ==
    << "2024-01-01", "2024-01-02", "2024-01-03", "2024-01-04", "2024-01-05" >>

\* Query.parseDate: the day, NoDate for a moment that is not valid
parseDate(input) ==
    IF Len(input) = 1 /\ \E d \in 1..Len(DateTexts) : DateTexts[d] = input[1]
    THEN CHOOSE d \in 1..Len(DateTexts) : DateTexts[d] = input[1]
    ELSE NoDate

\* line.match of /^<keyword> (before|after|on)? ?(.*)/: <<>> for null, else
\* the groups
DateMatch(line, keyword) ==
    IF Len(line) >= 2 /\ line[1] = keyword
    THEN IF line[2] \in { "before", "after", "on" }
         THEN << [mode |-> line[2], text |-> Rest(line, 3)] >>
         ELSE << [mode |-> "", text |-> Rest(line, 2)] >>
    ELSE <<>>

PriorityWords == { "low", "none", "medium", "high" }

\* line.match(priorityRegexp): <<>> for null, else groups 2 and 3
PriorityMatch(line) ==
    IF line = <<>> \/ line[1] # "priority" THEN <<>>
    ELSE LET i == IF Len(line) >= 2 /\ line[2] = "is" THEN 3 ELSE 2
             isMode == Len(line) >= i /\ line[i] \in { "above", "below" }
             j == IF isMode THEN i + 1 ELSE i
         IN  IF Len(line) >= j /\ \E w \in PriorityWords : StartsWith(line[j], w)
             THEN << [mode |-> IF isMode THEN line[i] ELSE "",
                      level |-> CHOOSE w \in PriorityWords : StartsWith(line[j], w)] >>
             ELSE <<>>

\* line.match of /^<keyword> (includes|does not include) (.*)/
TextMatch(line, keyword) ==
    IF Len(line) >= 3 /\ line[1] = keyword /\ line[2] = "includes"
    THEN << [method |-> "includes", text |-> line[3]] >>
    ELSE IF /\ Len(line) >= 5 /\ line[1] = keyword
            /\ SubSeq(line, 2, 4) = << "does", "not", "include" >>
         THEN << [method |-> "does not include", text |-> line[5]] >>
         ELSE <<>>

SortingProperties ==
    { "urgency", "status", "priority", "start", "scheduled", "due", "done",
      "path", "description" }

\* line.match(sortByRegexp)
SortByMatch(line) ==
    IF /\ Len(line) >= 3 /\ line[1] = "sort" /\ line[2] = "by"
       /\ line[3] \in SortingProperties
    THEN << [property |-> line[3],
             reverse |-> Len(line) >= 4 /\ StartsWith(line[4], "reverse")] >>
    ELSE <<>>

HideOptions ==
    { << "task", "count" >>, << "backlink" >>, << "priority" >>,
      << "start", "date" >>, << "scheduled", "date" >>, << "done", "date" >>,
      << "due", "date" >>, << "recurrence", "rule" >>, << "edit", "button" >> }

HideMatches(line, option) ==
    LET n == Len(option)
    IN  /\ Len(line) >= n + 1
        /\ line[1] = "hide"
        /\ SubSeq(line, 2, n) = SubSeq(option, 1, n - 1)
        /\ StartsWith(line[n + 1], option[n])

\* line.match(hideOptionsRegexp)
HideMatch(line) ==
    IF \E o \in HideOptions : HideMatches(line, o)
    THEN << CHOOSE o \in HideOptions : HideMatches(line, o) >>
    ELSE <<>>

\* the digit strings of the model, as Number.parseInt reads them
Digits == [ w \in { "5", "10" } |-> IF w = "5" THEN 5 ELSE 10 ]

\* line.match(limitRegexp): <<>> for null, else group 2
LimitMatch(line) ==
    IF line = <<>> \/ line[1] # "limit" THEN <<>>
    ELSE LET i == IF Len(line) >= 2 /\ line[2] = "to" THEN 3 ELSE 2
         IN  IF Len(line) >= i /\ line[i] \in DOMAIN Digits
             THEN << line[i] >> ELSE <<>>

(***************************************************************************)
(* The Query constructor. A compiled filter is the record of what its      *)
(* closure captured; Filter evaluates it on a block as the closure does.   *)
(***************************************************************************)
NoError == ""
NoLimit == -1

NewQuery ==
    [error |-> NoError, filters |-> <<>>, sorting |-> <<>>, limit |-> NoLimit,
     layout |-> {}]

F(kind, mode, day, text) == [kind |-> kind, mode |-> mode, day |-> day, text |-> text]

Push(q, filter) == [q EXCEPT !.filters = Append(@, filter)]
Fail(q, message) == [q EXCEPT !.error = message]

parsePriorityFilter(q, line) ==
    LET m == PriorityMatch(line)
    IN  IF m = <<>> THEN Fail(q, "do not understand query filter (priority date)")
        ELSE LET filterPriority ==
                     CASE m[1].level = "low" -> Priority.Low
                       [] m[1].level = "none" -> Priority.None
                       [] m[1].level = "medium" -> Priority.Medium
                       [] m[1].level = "high" -> Priority.High
             IN  Push(q, F("priority", m[1].mode, NoDate, filterPriority))

\* parseHappensFilter, parseStartFilter, parseDueFilter, parseDoneFilter: a
\* date that is not valid records the error and compiles nothing
parseDateFilter(q, line, keyword, kind) ==
    LET m == DateMatch(line, keyword)
    IN  IF m = <<>>
        THEN IF kind = "done" THEN q
             ELSE Fail(q, "do not understand query filter")
        ELSE LET filterDate == parseDate(m[1].text)
             IN  IF filterDate = NoDate THEN Fail(q, "do not understand date")
                 ELSE Push(q, F(kind, m[1].mode, filterDate, ""))

\* parseScheduledFilter: records the error of a date that is not valid and
\* goes on to compile the filter
parseScheduledFilter(q, line) ==
    LET m == DateMatch(line, "scheduled")
    IN  IF m = <<>> THEN Fail(q, "do not understand query filter (scheduled date)")
        ELSE LET filterDate == parseDate(m[1].text)
                 q1 == IF filterDate = NoDate
                       THEN Fail(q, "do not understand scheduled date") ELSE q
             IN  Push(q1, F("scheduled", m[1].mode, filterDate, ""))

\* parsePathFilter, parseDescriptionFilter, parseHeadingFilter
parseTextFilter(q, line, keyword) ==
    LET m == TextMatch(line, keyword)
    IN  IF m = <<>> THEN Fail(q, "do not understand query filter")
        ELSE Push(q, F(keyword, m[1].method, NoDate, m[1].text))

parseLimit(q, line) ==
    LET m == LimitMatch(line)
    IN  IF m = <<>> THEN Fail(q, "do not understand query limit")
        ELSE [q EXCEPT !.limit = Digits[m[1]]]

parseSortBy(q, line) ==
    LET m == SortByMatch(line)
    IN  IF m = <<>> THEN Fail(q, "do not understand query sorting")
        ELSE [q EXCEPT !.sorting = Append(@, m[1])]

parseHideOptions(q, line) ==
    LET m == HideMatch(line)
    IN  IF m = <<>> THEN q ELSE [q EXCEPT !.layout = @ \cup { m[1] }]

\* a line that matches nothing leaves the query as it is
ParseLineLenient(q, line) == q

\* the body of the forEach: the switch on one trimmed line
ParseLine(q, line) ==
    CASE line = <<>> -> q
      [] line = << "done" >> -> Push(q, F("done", "", NoDate, ""))
      [] line = << "not", "done" >> -> Push(q, F("not done", "", NoDate, ""))
      [] line = << "is", "recurring" >> -> Push(q, F("is recurring", "", NoDate, ""))
      [] line = << "is", "not", "recurring" >> ->
            Push(q, F("is not recurring", "", NoDate, ""))
      [] line = << "exclude", "sub-items" >> ->
            Push(q, F("exclude sub-items", "", NoDate, ""))
      [] line = << "no", "start", "date" >> -> Push(q, F("no start date", "", NoDate, ""))
      [] line = << "no", "scheduled", "date" >> ->
            Push(q, F("no scheduled date", "", NoDate, ""))
      [] line = << "no", "due", "date" >> -> Push(q, F("no due date", "", NoDate, ""))
      [] OTHER ->
         IF StartsWith(line[1], "short")
         THEN [q EXCEPT !.layout = @ \cup { << "short" >> }]
         ELSE IF PriorityMatch(line) # <<>> THEN parsePriorityFilter(q, line)
         ELSE IF DateMatch(line, "happens") # <<>>
              THEN parseDateFilter(q, line, "happens", "happens")
         ELSE IF DateMatch(line, "starts") # <<>>
              THEN parseDateFilter(q, line, "starts", "starts")
         ELSE IF DateMatch(line, "scheduled") # <<>> THEN parseScheduledFilter(q, line)
         ELSE IF DateMatch(line, "due") # <<>> THEN parseDateFilter(q, line, "due", "due")
         ELSE IF DateMatch(line, "done") # <<>>
              THEN parseDateFilter(q, line, "done", "done date")
         ELSE IF TextMatch(line, "path") # <<>> THEN parseTextFilter(q, line, "path")
         ELSE IF TextMatch(line, "description") # <<>>
              THEN parseTextFilter(q, line, "description")
         ELSE IF TextMatch(line, "heading") # <<>>
              THEN parseTextFilter(q, line, "heading")
         ELSE IF LimitMatch(line) # <<>> THEN parseLimit(q, line)
         ELSE IF SortByMatch(line) # <<>> THEN parseSortBy(q, line)
         ELSE IF HideMatch(line) # <<>> THEN parseHideOptions(q, line)
         ELSE IF StartsWith(line[1], "#") THEN q
         ELSE Fail(q, "do not understand query")

RECURSIVE ParseLines(_, _)
ParseLines(q, lines) ==
    IF lines = <<>> THEN q
    ELSE ParseLines(ParseLine(q, Trim(Head(lines))), Tail(lines))

\* new Query({ source })
NewQueryFrom(source) == ParseLines(NewQuery, source)

(***************************************************************************)
(* The closures the constructor compiles, each on a block tb               *)
(***************************************************************************)
\* moment.isBefore, isAfter, isSame on days; nothing compares with a moment
\* that is not valid
Compares(mode, date, filterDate) ==
    /\ filterDate # NoDate
    /\ CASE mode = "before" -> date < filterDate
         [] mode = "after" -> date > filterDate
         [] OTHER -> date = filterDate

\* the plain priority filter as equality with the query priority
priorityFilterEquals(mode, filterPriority, tb) ==
    IF mode = "above"
    THEN \E i \in 1..Len(tb) : localeCompare(tb[i].priority, filterPriority) < 0
    ELSE IF mode = "below"
    THEN ~ \E i \in 1..Len(tb) : localeCompare(tb[i].priority, filterPriority) < 0
    ELSE \A i \in 1..Len(tb) : tb[i].priority = filterPriority

priorityFilter(mode, filterPriority, tb) ==
    IF mode = "above"
    THEN \E i \in 1..Len(tb) : localeCompare(tb[i].priority, filterPriority) < 0
    ELSE IF mode = "below"
    THEN ~ \E i \in 1..Len(tb) : localeCompare(tb[i].priority, filterPriority) < 0
    ELSE \A i \in 1..Len(tb) :
            \/ tb[i].priority = filterPriority
            \/ localeCompare(tb[i].priority, filterPriority) < 0

\* the happens filter with a missing date counted as a match
happensFilterLenient(mode, filterDate, tb) ==
    \E i \in 1..Len(tb) :
        \E date \in { tb[i].startDate, tb[i].scheduledDate, tb[i].dueDate } :
            date = NoDate \/ Compares(mode, date, filterDate)

happensFilter(mode, filterDate, tb) ==
    \E i \in 1..Len(tb) :
        \E date \in { tb[i].startDate, tb[i].scheduledDate, tb[i].dueDate } :
            date # NoDate /\ Compares(mode, date, filterDate)

startFilter(mode, filterDate, tb) ==
    \E i \in 1..Len(tb) :
        IF tb[i].startDate # NoDate
        THEN Compares(mode, tb[i].startDate, filterDate) ELSE TRUE

scheduledFilter(mode, filterDate, tb) ==
    \E i \in 1..Len(tb) :
        IF tb[i].scheduledDate # NoDate
        THEN Compares(mode, tb[i].scheduledDate, filterDate) ELSE FALSE

dueFilter(mode, filterDate, tb) ==
    \E i \in 1..Len(tb) :
        IF tb[i].dueDate # NoDate
        THEN Compares(mode, tb[i].dueDate, filterDate) ELSE FALSE

\* the done date filter on some task instead of every task
doneDateFilterSome(mode, filterDate, tb) ==
    \E i \in 1..Len(tb) :
        IF tb[i].doneDate # NoDate
        THEN Compares(mode, tb[i].doneDate, filterDate) ELSE FALSE

doneDateFilter(mode, filterDate, tb) ==
    \A i \in 1..Len(tb) :
        IF tb[i].doneDate # NoDate
        THEN Compares(mode, tb[i].doneDate, filterDate) ELSE FALSE

\* tb.tasks[0].path of a block without tasks raises a TypeError
pathFilter(method, text, tb) ==
    IF method = "includes"
    THEN Ret(IF Len(tb) > 0
             THEN stringIncludesCaseInsensitive(tb[1].path, text) ELSE FALSE)
    ELSE IF Len(tb) = 0 THEN TypeErrorB
         ELSE Ret(~stringIncludesCaseInsensitive(tb[1].path, text))

descriptionFilter(method, text, tb) ==
    LET some == \E i \in 1..Len(tb) :
                    stringIncludesCaseInsensitive(
                        WithoutGlobalFilter(tb[i].description), text)
    IN  IF method = "includes" THEN some ELSE ~some

headingFilter(method, text, tb) ==
    LET some == \E i \in 1..Len(tb) :
                    /\ tb[i].precedingHeader # NoHeader
                    /\ stringIncludesCaseInsensitive(tb[i].precedingHeader, text)
    IN  IF method = "includes" THEN some ELSE ~some

\* a compiled filter called on a block
Filter(f, tb) ==
    CASE f.kind = "done" -> Ret(\A i \in 1..Len(tb) : tb[i].status = "Done")
      [] f.kind = "not done" -> Ret(\E i \in 1..Len(tb) : tb[i].status # "Done")
      [] f.kind = "is recurring" -> Ret(IF Len(tb) > 0 THEN tb[1].recurrence ELSE FALSE)
      [] f.kind = "is not recurring" ->
            Ret(IF Len(tb) > 0 THEN ~tb[1].recurrence ELSE FALSE)
      [] f.kind = "exclude sub-items" ->
            Ret(IF Len(tb) > 0 THEN tb[1].indentation = "" ELSE FALSE)
      [] f.kind = "no start date" -> Ret(\A i \in 1..Len(tb) : tb[i].startDate # NoDate)
      [] f.kind = "no scheduled date" ->
            Ret(\A i \in 1..Len(tb) : tb[i].scheduledDate # NoDate)
      [] f.kind = "no due date" -> Ret(\A i \in 1..Len(tb) : tb[i].dueDate # NoDate)
      [] f.kind = "priority" -> Ret(priorityFilter(f.mode, f.text, tb))
      [] f.kind = "happens" -> Ret(happensFilter(f.mode, f.day, tb))
      [] f.kind = "starts" -> Ret(startFilter(f.mode, f.day, tb))
      [] f.kind = "scheduled" -> Ret(scheduledFilter(f.mode, f.day, tb))
      [] f.kind = "due" -> Ret(dueFilter(f.mode, f.day, tb))
      [] f.kind = "done date" -> Ret(doneDateFilter(f.mode, f.day, tb))
      [] f.kind = "path" -> pathFilter(f.mode, f.text, tb)
      [] f.kind = "description" -> Ret(descriptionFilter(f.mode, f.text, tb))
      [] f.kind = "heading" -> Ret(headingFilter(f.mode, f.text, tb))

(***************************************************************************)
(* Sort. A comparator returns Ret(n) or raises a TypeError.                *)
(***************************************************************************)
\* Sort.compareByDate
compareByDate(a, b) ==
    IF a # NoDate /\ b = NoDate THEN -1
    ELSE IF a = NoDate /\ b # NoDate THEN 1
    ELSE IF a # NoDate /\ b # NoDate
         THEN IF a > b THEN 1 ELSE IF a < b THEN -1 ELSE 0
         ELSE 0

\* the function compareTask local to the comparator of this name
compareTask(by, at, bt) ==
    CASE by = "urgency" -> urgency(bt) - urgency(at)
      [] by = "priority" -> localeCompare(at.priority, bt.priority)
      [] OTHER -> compareByDate(at[by], bt[by])

\* Array.prototype.sort on a copy of the tasks of a block, the comparator
\* being consistent: the stable insertion of each task after the tasks that
\* do not come after it
RECURSIVE InsertTask(_, _, _)
InsertTask(sorted, task, by) ==
    IF sorted = <<>> THEN << task >>
    ELSE IF compareTask(by, sorted[Len(sorted)], task) <= 0 THEN Append(sorted, task)
    ELSE Append(InsertTask(SubSeq(sorted, 1, Len(sorted) - 1), task, by),
                sorted[Len(sorted)])

RECURSIVE SortTasks(_, _)
SortTasks(tasks, by) ==
    IF tasks = <<>> THEN <<>>
    ELSE InsertTask(SortTasks(SubSeq(tasks, 1, Len(tasks) - 1), by),
                    tasks[Len(tasks)], by)

compareByUrgency(a, b) ==
    IF Len(a) < 1 THEN Ret(-1)
    ELSE IF Len(b) < 1 THEN Ret(1)
    ELSE Ret(compareTask("urgency", SortTasks(a, "urgency")[1],
                         SortTasks(b, "urgency")[1]))

compareByStatus(a, b) ==
    LET getScore(tb) ==
            Cardinality({ i \in 1..Len(tb) : tb[i].status = "Done" }) = Len(tb)
        a_score == getScore(a)
        b_score == getScore(b)
    IN  Ret(IF ~a_score /\ b_score THEN -1
            ELSE IF a_score /\ ~b_score THEN 1 ELSE 0)

\* a_sorted[0] of a block without tasks is undefined, and reading a property
\* of it raises
compareByPriority(a, b) ==
    IF Len(a) < 1 \/ Len(b) < 1 THEN TypeError
    ELSE Ret(compareTask("priority", SortTasks(a, "priority")[1],
                         SortTasks(b, "priority")[1]))

\* compareByStartDate, compareByScheduledDate, compareByDueDate
compareByDateField(a, b, field) ==
    IF Len(a) < 1 \/ Len(b) < 1 THEN TypeError
    ELSE Ret(compareByDate(SortTasks(a, field)[1][field],
                           SortTasks(b, field)[1][field]))

\* a_sorted[-1] is undefined whatever the block holds
compareByDoneDate(a, b) == TypeError

compareByPath(a, b) ==
    Ret(IF Len(a) > 0 /\ Len(b) > 0
        THEN IF Collation[a[1].path] < Collation[b[1].path] THEN -1
             ELSE IF Collation[a[1].path] > Collation[b[1].path] THEN 1 ELSE 0
        ELSE 0)

\* Sort.cleanDescription on the descriptions of the model, none of which
\* begins with a link, a bold or italic mark or a highlight
cleanDescription(description) == WithoutGlobalFilter(description)

compareByDescription(a, b) ==
    IF Len(a) < 1 \/ Len(b) < 1 THEN TypeError
    ELSE Ret(localeCompare(cleanDescription(a[1].description),
                           cleanDescription(b[1].description)))

\* Sort.comparators[property]
Comparator(property, a, b) ==
    CASE property = "urgency" -> compareByUrgency(a, b)
      [] property = "description" -> compareByDescription(a, b)
      [] property = "priority" -> compareByPriority(a, b)
      [] property = "start" -> compareByDateField(a, b, "startDate")
      [] property = "scheduled" -> compareByDateField(a, b, "scheduledDate")
      [] property = "due" -> compareByDateField(a, b, "dueDate")
      [] property = "done" -> compareByDoneDate(a, b)
      [] property = "path" -> compareByPath(a, b)
      [] property = "status" -> compareByStatus(a, b)

\* a reversal that leaves the comparator as it is
makeReversedComparatorSame(r) == r

\* Sort.makeReversedComparator, on what the comparator returned
makeReversedComparator(r) ==
    IF r.threw THEN r ELSE Ret(r.value * (-1))

defaultComparators ==
    << [property |-> "urgency", reverse |-> FALSE],
       [property |-> "status", reverse |-> FALSE],
       [property |-> "due", reverse |-> FALSE],
       [property |-> "priority", reverse |-> FALSE],
       [property |-> "path", reverse |-> FALSE] >>

\* one comparator of the chain, called on a and b
Compare(criterion, a, b) ==
    IF criterion.reverse
    THEN makeReversedComparator(Comparator(criterion.property, a, b))
    ELSE Comparator(criterion.property, a, b)

\* Sort.makeCompositeComparator: the first result that is not 0
RECURSIVE Composite(_, _, _)
Composite(comparators, a, b) ==
    IF comparators = <<>> THEN Ret(0)
    ELSE LET result == Compare(Head(comparators), a, b)
         IN  IF result.threw \/ result.value # 0 THEN result
             ELSE Composite(Tail(comparators), a, b)

\* the chain with the default comparators first
ChainDefaultsFirst(sorting) == defaultComparators \o sorting

\* the comparators Sort.by hands to makeCompositeComparator
Chain(sorting) == sorting \o defaultComparators

(***************************************************************************)
(* Sort.by: taskBlocks.sort with the composite comparator                  *)
(***************************************************************************)
TypeErrorS == [threw |-> TRUE, value |-> <<>>]

RECURSIVE InsertBlock(_, _, _)
InsertBlock(sorted, tb, chain) ==
    IF sorted = <<>> THEN << tb >>
    ELSE IF Composite(chain, sorted[Len(sorted)], tb).value <= 0
         THEN Append(sorted, tb)
    ELSE Append(InsertBlock(SubSeq(sorted, 1, Len(sorted) - 1), tb, chain),
                sorted[Len(sorted)])

\* the stable sort of blocks under a comparator that is consistent on them
RECURSIVE StableSort(_, _)
StableSort(blocks, chain) ==
    IF blocks = <<>> THEN <<>>
    ELSE InsertBlock(StableSort(SubSeq(blocks, 1, Len(blocks) - 1), chain),
                     blocks[Len(blocks)], chain)

\* the comparator is a consistent comparator for the blocks of the list:
\* each equal to itself, opposite results for opposite orders, transitive
Consistent(chain, blocks) ==
    LET n == Len(blocks)
    IN  \A c \in { [ i \in 1..n |-> [ j \in 1..n |->
                      Sign(Composite(chain, blocks[i], blocks[j]).value) ] ] } :
            /\ \A i \in 1..n : c[i][i] = 0
            /\ \A i, j \in 1..n : c[i][j] = -c[j][i]
            /\ \A i, j, k \in 1..n :
                  /\ (c[i][j] = 0 /\ c[j][k] = 0) => c[i][k] = 0
                  /\ (c[i][j] < 0 /\ c[j][k] < 0) => c[i][k] < 0
                  /\ (c[i][j] > 0 /\ c[j][k] > 0) => c[i][k] > 0

Permuted(blocks) ==
    { [ i \in 1..Len(blocks) |-> blocks[p[i]] ] :
        p \in { f \in [1..Len(blocks) -> 1..Len(blocks)] :
                  \A i, j \in 1..Len(blocks) : f[i] = f[j] => i = j } }

\* what Sort.by can return: the comparator is called on pairs of the list
\* that the engine chooses; a call that raises ends the sort; with a
\* comparator that is not consistent the order is the engine's
SortOutcomes(sorting, blocks) ==
    LET chain == Chain(sorting)
        n == Len(blocks)
        pairs == { p \in (1..n) \X (1..n) : p[1] # p[2] }
        raising == { p \in pairs :
                       Composite(chain, blocks[p[1]], blocks[p[2]]).threw }
    IN  IF n < 2 THEN { Ret(blocks) }
        ELSE (IF raising # {} THEN { TypeErrorS } ELSE {})
             \cup (IF raising = pairs THEN {}
                   ELSE IF raising = {} /\ Consistent(chain, blocks)
                        THEN { Ret(StableSort(blocks, chain)) }
                        ELSE { Ret(l) : l \in Permuted(blocks) })

\* the filters applied one after the other, each on the blocks the earlier
\* ones kept; a call that raises ends the run
RECURSIVE Keep(_, _)
Keep(filters, blocks) ==
    IF filters = <<>> THEN Ret(blocks)
    ELSE IF \E j \in 1..Len(blocks) : Filter(Head(filters), blocks[j]).threw
         THEN TypeErrorS
         ELSE Keep(Tail(filters),
                   SelectSeq(blocks, LAMBDA tb : Filter(Head(filters), tb).value))

(***************************************************************************)
(* The Query and the Sort on their own: a source and a list of blocks      *)
(* drawn from the families below; the Query is built, its filters are run  *)
(* on the blocks, and the blocks kept are sorted.                          *)
(***************************************************************************)
T(status, priority, dueDate) ==
    [BaseTask EXCEPT !.status = status, !.priority = priority, !.dueDate = dueDate]

DateFields == { "startDate", "scheduledDate", "dueDate", "doneDate" }

PriorityTasks == { [BaseTask EXCEPT !.priority = p] : p \in Priorities }

DateTasks ==
    { BaseTask } \cup
    { [BaseTask EXCEPT ![f] = d] : f \in DateFields, d \in 1..MaxDay }

\* the tasks a date filter of this keyword is run on: without dates, with
\* each day in a field the filter reads, with the first day in another field
DateTasksFor(keyword) ==
    LET read(f) ==
            CASE keyword = "happens" -> f \in { "startDate", "scheduledDate", "dueDate" }
              [] keyword = "starts" -> f = "startDate"
              [] keyword = "scheduled" -> f = "scheduledDate"
              [] keyword = "due" -> f = "dueDate"
              [] keyword = "done" -> f = "doneDate"
              [] OTHER -> FALSE
    IN  { t \in DateTasks : \A f \in DateFields : t[f] \in { NoDate, 1 } \/ read(f) }

StatusTasks ==
    { [BaseTask EXCEPT !.status = s, !.recurrence = r, !.indentation = i] :
        s \in { "Todo", "Done" }, r \in BOOLEAN, i \in { "", "  " } }

TextTasks ==
    { [BaseTask EXCEPT !.path = p, !.description = d, !.precedingHeader = h] :
        p \in Paths, d \in { "alpha", "Beta", "#task alpha" },
        h \in { NoHeader, HeadingText } }

\* the blocks Sort.by is run on: one without tasks, and blocks that tie and
\* differ on each comparator
SortBlocks ==
    { <<>>,
      << BaseTask >>,
      << T("Done", Priority.None, NoDate) >>,
      << [BaseTask EXCEPT !.path = "b.md"] >>,
      << T("Todo", Priority.High, NoDate) >>,
      << T("Todo", Priority.Medium, MaxDay) >>,
      << T("Todo", Priority.High, NoDate), T("Todo", Priority.Low, MaxDay) >>,
      << T("Done", Priority.None, 1) >>,
      << BaseTask, T("Done", Priority.None, NoDate) >>,
      << [BaseTask EXCEPT !.startDate = MaxDay, !.scheduledDate = 1],
         [BaseTask EXCEPT !.startDate = 1] >>,
      << [BaseTask EXCEPT !.startDate = 2] >>,
      << [BaseTask EXCEPT !.status = "Done", !.doneDate = 1] >>,
      << [BaseTask EXCEPT !.description = "Beta"] >> }

Opt(words) == { <<>>, words }

PriorityLines ==
    { << "priority" >> \o is \o mode \o << level >> :
        is \in Opt(<< "is" >>),
        mode \in { <<>>, << "above" >>, << "below" >> },
        level \in PriorityWords }

DateLines ==
    { << keyword >> \o mode \o << DateTexts[d] >> :
        keyword \in { "happens", "starts", "scheduled", "due", "done" },
        mode \in { <<>>, << "before" >>, << "after" >>, << "on" >> },
        d \in 1..MaxDay }

TextLines ==
    { << keyword >> \o method \o << text >> :
        keyword \in { "path", "description", "heading" },
        method \in { << "includes" >>, << "does", "not", "include" >> },
        text \in { "a", "ALPHA", "md", "Head", "zzz" } }

StatusLines ==
    { << "done" >>, << "not", "done" >>, << "is", "recurring" >>,
      << "is", "not", "recurring" >>, << "exclude", "sub-items" >>,
      << "no", "start", "date" >>, << "no", "scheduled", "date" >>,
      << "no", "due", "date" >> }

SortLines ==
    { << "sort", "by", property >> \o reverse :
        property \in SortingProperties, reverse \in Opt(<< "reverse" >>) }

\* the sort lines written two in one source
SortLinesInPairs ==
    { << << "sort", "by", "status" >>, << "sort", "by", "path", "reverse" >> >>,
      << << "sort", "by", "status", "reverse" >>, << "sort", "by", "path" >> >>,
      << << "sort", "by", "due" >>, << "sort", "by", "path", "reverse" >> >>,
      << << "sort", "by", "due", "reverse" >>, << "sort", "by", "due" >> >> }

\* no sort line, one, two; and a status line before none and before one
SortSources ==
    { <<>> } \cup { << l >> : l \in SortLines } \cup SortLinesInPairs
    \cup { filter \o sort :
              filter \in { << << "done" >> >>, << << "not", "done" >> >> },
              sort \in { <<>>, << << "sort", "by", "due" >> >> } }

\* the lines written several in one source: lines of the productions, lines
\* that match none, lines that match a production and hold a date chrono
\* does not read, blank and comment lines
GrammarLines ==
    { << "done" >>, << "not", "done" >>, << "is", "recurring" >>,
      << "exclude", "sub-items" >>, << "no", "due", "date" >>,
      << "priority", "high" >>, << "priority", "is", "above", "high" >>,
      << "path", "includes", "a" >>, << "sort", "by", "due", "reverse" >> }
    \cup { l \in DateLines : /\ l[1] \in { "happens", "scheduled", "done" }
                             /\ Len(l) = 3 /\ l[2] = "before" /\ l[3] = DateTexts[1] }
    \cup { << "hide", "task", "count" >>,
           << "short" >>, << "limit", "to", "10", "tasks" >>,
           <<>>, << Space >>, << "#note", "done" >>,
           << Space, "done", Space >>,
           << "foo" >>, << "priority", "is", "urgent" >>,
           << "hide", "everything" >>, << "sort", "by", "size" >>,
           << "limit", "five" >>, << "path", "includes" >>, << "due" >>,
           << "done", "before", "never" >>, << "scheduled", "before", "never" >>,
           << "shortly" >>, << "priority", "is", "highest" >> }

\* lines in one source of the family of query texts
MaxQueryLines == 2

GrammarSources ==
    UNION { [1..n -> GrammarLines] : n \in 0..MaxQueryLines }

Lists(B, n) == UNION { [1..k -> B] : k \in 0..n }

Inputs ==
    (GrammarSources \X { << << BaseTask >>, <<>> >> })
    \cup ({ << l >> : l \in PriorityLines }
            \X Lists(BlocksOver(PriorityTasks, MaxTasks), 1))
    \cup UNION { { << l >> } \X Lists(BlocksOver(DateTasksFor(l[1]), MaxTasks), 1) :
                    l \in { m \in DateLines :
                              m[Len(m)] \in { DateTexts[1], DateTexts[2] } } }
    \cup ({ << l >> : l \in TextLines }
            \X Lists(BlocksOver(TextTasks, MaxTasks), 1))
    \cup ({ << l >> : l \in StatusLines }
            \X Lists(BlocksOver(StatusTasks \cup DateTasksFor(""), MaxTasks), 1))
    \cup (SortSources \X Lists(SortBlocks, MaxBlocks))

QueryInit ==
    /\ query \in { [phase |-> "new", source |-> in[1], blocks |-> in[2],
                    q |-> NewQuery, results |-> <<>>, kept |-> <<>>,
                    compared |-> <<>>, sorted |-> <<>>, given |-> <<>>] :
                  in \in Inputs }
    /\ pure = PureOff
    /\ form = FormOff
    /\ docs = [ p \in Paths |-> NoFile ]
    /\ taskblocks = <<>>
    /\ state = "Cold"
    /\ loadedAfterFirstResolve = FALSE
    /\ mutexQueue = <<>>
    /\ mutexHolder = 0
    /\ reads = <<>>
    /\ lastPub = NoPub
    /\ lastOp = NoOp
    /\ counts = [loadCalls |-> 0, loadsBegun |-> 0, resolved |-> 0, events |-> 0]

\* new Query({ source })
Construct ==
    /\ query.phase = "new"
    /\ query' = [query EXCEPT !.phase = "built", !.q = NewQueryFrom(query.source)]
    /\ Frame
    /\ UNCHANGED << pure, form >>

\* a query without error is run: every filter is called on every block, and
\* the blocks that pass all filters are kept
ApplyFilters ==
    /\ query.phase = "built"
    /\ query.q.error = NoError
    /\ LET kept == Keep(query.q.filters, query.blocks)
       IN  query' = [query EXCEPT
                !.phase = IF kept.threw THEN "raised in filter" ELSE "filtered",
                !.results = [ i \in 1..Len(query.q.filters) |->
                                [ j \in 1..Len(query.blocks) |->
                                    Filter(query.q.filters[i], query.blocks[j]) ]],
                !.kept = kept.value]
    /\ Frame
    /\ UNCHANGED << pure, form >>

\* Sort.by(query, kept); compared is what the comparator handed to sort
\* returns on each pair of blocks of the list. taskBlocks.sort sorts the
\* array it is called on and returns that array: given is the array handed
\* to Sort.by as the call leaves it, in the order it had when the call raises
SortBy ==
    /\ query.phase = "filtered"
    /\ LET compared == [ i \in 1..Len(query.kept) |->
                            [ j \in 1..Len(query.kept) |->
                                Composite(Chain(query.q.sorting),
                                          query.kept[i], query.kept[j]) ]]
       IN  \E outcome \in SortOutcomes(query.q.sorting, query.kept) :
              query' = [query EXCEPT
                  !.phase = IF outcome.threw THEN "raised in sort" ELSE "sorted",
                  !.compared = compared,
                  !.sorted = outcome.value,
                  !.given = IF outcome.threw THEN query.kept ELSE outcome.value]
    /\ Frame
    /\ UNCHANGED << pure, form >>

QueryNext == Construct \/ ApplyFilters \/ SortBy

SpecQuery == QueryInit /\ [][QueryNext]_vars

(***************************************************************************)
(* The edit form (EditTask.svelte). A moment is its day; window.moment()   *)
(* is the day the form is submitted on. The form holds texts: a date is    *)
(* formatted when the form is mounted and parsed when it is submitted.     *)
(***************************************************************************)
\* the options of the status and priority selects
StatusOptions == { "to do", "done", "blocked", "in progress" }
PriorityOptions == { "none", "low", "medium", "high" }

\* date ? date.format('YYYY-MM-DD') : ''
formatDate(date) == IF date = NoDate THEN "" ELSE DateTexts[date]

\* onMount: editableTask as read from the task
Mounted(task) ==
    [description |-> WithoutGlobalFilter(task.description),
     status |-> CASE task.status = "Todo" -> "to do"
                  [] task.status = "Done" -> "done"
                  [] task.status = "Blocked" -> "blocked"
                  [] task.status = "InProgress" -> "in progress"
                  [] OTHER -> "undefined",
     priority |-> CASE task.priority = Priority.Low -> "low"
                    [] task.priority = Priority.Medium -> "medium"
                    [] task.priority = Priority.High -> "high"
                    [] OTHER -> "none",
     recurrenceRule |-> IF task.recurrence THEN "every day" ELSE "",
     startDate |-> formatDate(task.startDate),
     scheduledDate |-> formatDate(task.scheduledDate),
     dueDate |-> formatDate(task.dueDate),
     doneDate |-> formatDate(task.doneDate)]

\* _onSubmit: the switch on editableTask.status, which sets newDoneDate to
\* window.moment() for 'done' and leaves it null otherwise
ParsedStatus(option, now) ==
    CASE option = "to do" -> [status |-> "Todo", newDoneDate |-> NoDate]
      [] option = "done" -> [status |-> "Done", newDoneDate |-> now]
      [] option = "blocked" -> [status |-> "Blocked", newDoneDate |-> NoDate]
      [] option = "in progress" -> [status |-> "InProgress", newDoneDate |-> NoDate]
      [] OTHER -> [status |-> "Todo", newDoneDate |-> NoDate]

\* the done date the form's text alone gives
DoneDateOfText(newDoneDate, text) == parseDate(<< text >>)

\* _onSubmit: the done date of the updated task. moment(m, format) of a
\* moment m is a copy of m, valid as m is.
SubmittedDoneDate(newDoneDate, text) ==
    IF newDoneDate = NoDate THEN NoDate
    ELSE IF newDoneDate # NoDate THEN newDoneDate
    ELSE IF parseDate(<< text >>) # NoDate THEN parseDate(<< text >>)
    ELSE NoDate

\* _onSubmit: the task handed to onSubmit. The global filter is put before
\* a description that has not got it; chrono.parseDate reads each date text
\* (null, here NoDate, for the empty text).
UpdatedTask(task, editableTask, now) ==
    LET parsed == ParsedStatus(editableTask.status, now)
        description ==
            IF editableTask.description = "alpha" THEN "#task alpha"
            ELSE editableTask.description
        parsedPriority ==
            CASE editableTask.priority = "low" -> Priority.Low
              [] editableTask.priority = "medium" -> Priority.Medium
              [] editableTask.priority = "high" -> Priority.High
              [] OTHER -> Priority.None
    IN  [task EXCEPT
            !.description = description,
            !.status = parsed.status,
            !.priority = parsedPriority,
            !.recurrence = editableTask.recurrenceRule # "",
            !.startDate = parseDate(<< editableTask.startDate >>),
            !.scheduledDate = parseDate(<< editableTask.scheduledDate >>),
            !.dueDate = parseDate(<< editableTask.dueDate >>),
            !.doneDate = SubmittedDoneDate(parsed.newDoneDate,
                                           editableTask.doneDate)]

\* the tasks the form is opened on
FormTasks ==
    { [BaseTask EXCEPT !.status = s, !.doneDate = d, !.description = t,
                       !.priority = p] :
        s \in { "Todo", "Done", "Blocked", "InProgress" },
        d \in { NoDate } \cup 1..MaxDay,
        t \in { "alpha", "#task alpha" },
        p \in { Priority.None, Priority.High } }

\* the form is created for a task, on some day, with editableTask as declared
FormInit ==
    /\ form \in { [phase |-> "new", task |-> t, now |-> n,
                   editableTask |->
                       [description |-> "", status |-> "to do",
                        priority |-> "none", recurrenceRule |-> "",
                        startDate |-> "", scheduledDate |-> "",
                        dueDate |-> "", doneDate |-> ""],
                   updated |-> <<>>] :
                  t \in FormTasks, n \in 1..MaxDay }
    /\ pure = PureOff
    /\ query = QueryOff
    /\ docs = [ p \in Paths |-> NoFile ]
    /\ taskblocks = <<>>
    /\ state = "Cold"
    /\ loadedAfterFirstResolve = FALSE
    /\ mutexQueue = <<>>
    /\ mutexHolder = 0
    /\ reads = <<>>
    /\ lastPub = NoPub
    /\ lastOp = NoOp
    /\ counts = [loadCalls |-> 0, loadsBegun |-> 0, resolved |-> 0, events |-> 0]

\* onMount
Mount ==
    /\ form.phase = "new"
    /\ form' = [form EXCEPT !.phase = "open",
                            !.editableTask = Mounted(form.task)]
    /\ Frame
    /\ UNCHANGED << pure, query >>

\* the user picks an option of the status select
SelectStatus(option) ==
    /\ form.phase = "open"
    /\ form' = [form EXCEPT !.editableTask.status = option]
    /\ Frame
    /\ UNCHANGED << pure, query >>

\* the user picks an option of the priority select
SelectPriority(option) ==
    /\ form.phase = "open"
    /\ form' = [form EXCEPT !.editableTask.priority = option]
    /\ Frame
    /\ UNCHANGED << pure, query >>

\* the form is submitted: _onSubmit calls onSubmit with the updated task
Submit ==
    /\ form.phase = "open"
    /\ form' = [form EXCEPT
            !.phase = "submitted",
            !.updated = << UpdatedTask(form.task, form.editableTask, form.now) >>]
    /\ Frame
    /\ UNCHANGED << pure, query >>

FormNext ==
    \/ Mount
    \/ \E option \in StatusOptions : SelectStatus(option)
    \/ \E option \in PriorityOptions : SelectPriority(option)
    \/ Submit

SpecEditTask == FormInit /\ [][FormNext]_vars

(***************************************************************************)
(* Properties                                                              *)
(***************************************************************************)
\* the blocks of the index whose top-level task has this path
Slice(blocks, path) ==
    SelectSeq(blocks, LAMBDA tb : tb # <<>> /\ tb[1].path = path)

\* the blocks a delete of path, or the removal step of indexFile, leaves
Others(blocks, path) ==
    SelectSeq(blocks, LAMBDA tb : tb # <<>> /\ tb[1].path # path)

RECURSIVE Flat(_)
Flat(blocks) == IF blocks = <<>> THEN <<>> ELSE Head(blocks) \o Flat(Tail(blocks))

\* no operation is under way: no callback waits, the mutex is free, no
\* indexFile is suspended on its read
Quiescent == mutexQueue = <<>> /\ mutexHolder = 0 /\ reads = <<>>

\* this step is the mutex starting the callback of a handler of kind op
StepOf(op) ==
    /\ mutexHolder = 0
    /\ mutexQueue # <<>>
    /\ Head(mutexQueue).op = op
    /\ mutexQueue' = Tail(mutexQueue)

\* this step is an indexFile running from its read to its end
StepOfReadDone == Len(reads') < Len(reads) /\ lastOp'.op = "index"

\* the operations started by notifications that have begun and not ended:
\* the indexFile calls of handlers, and the load that holds the mutex
HandlerReads == SelectSeq(reads, LAMBDA r : r.owner = 0)
Underway == Len(HandlerReads) + (IF mutexHolder # 0 THEN 1 ELSE 0)

\* C1: operations triggered by notifications are serialized: while one has
\* started and not yet finished (read, mutation, publication), no other one
\* is under way.
C1_Serialized == Underway <= 1

\* C2: every cache update is published while the operation that produced it
\* holds the mutex.
C2_PublishedInsideRegion == lastPub.held

\* C3 as stated: the full-vault load is started exactly once in the life of
\* the Cache (by the first 'resolved'), never a second time.
C3_LoadStartedOnce == counts.loadCalls <= 1

\* C3 as amended: loadVault is called once by the constructor and once more
\* by the first 'resolved' notification, and by no later one.
C3_LoadsByConstructorAndFirstResolve ==
    /\ counts.loadCalls = 1 + (IF counts.resolved > 0 THEN 1 ELSE 0)
    /\ loadedAfterFirstResolve = (counts.resolved > 0)
    /\ counts.loadsBegun <= counts.loadCalls

C3_Witness == counts.resolved >= 2 /\ counts.loadsBegun = 2

\* C4 as stated: once the state is Warm it stays Warm, and no update
\* published after a Warm update carries another state.
C4_WarmStaysWarm ==
    [][ /\ state = "Warm" => state' = "Warm"
        /\ lastPub'.afterWarm => lastPub'.state = "Warm" ]_vars

\* C4 as amended: the state never returns to Cold, leaves Cold and
\* Initializing only forwards, and leaves Warm only for Initializing when the
\* second load (the one the first 'resolved' starts) begins; every update
\* carries the state of the moment it is published.
C4_OnlyTheReloadLeavesWarm ==
    [][ /\ state # "Cold" => state' # "Cold"
        /\ (state = "Cold" /\ state' # state) => state' = "Initializing"
        /\ (state = "Initializing" /\ state' # state) => state' = "Warm"
        /\ (state = "Warm" /\ state' # state) =>
              /\ state' = "Initializing"
              /\ loadedAfterFirstResolve
              /\ counts.loadsBegun = 1 /\ counts'.loadsBegun = 2
        /\ lastPub' # lastPub => lastPub'.state = state' ]_vars

C4_Witness ==
    /\ state = "Initializing"
    /\ counts.loadsBegun = 2
    /\ lastPub.afterWarm /\ lastPub.state = "Initializing"

\* C5: at every quiescent point after the load, the index holds for every
\* path exactly the blocks that parsing the file now at that path gives, and
\* none for a path without a file.
C5_QuiescentIndexIsTheVault ==
    (Quiescent /\ state = "Warm") =>
        \A p \in Paths :
            Slice(taskblocks, p) =
                IF CacheOf(p) = "absent" THEN <<>>
                ELSE Slice(BlocksOf(p, docs[p]), p)

\* C6: after a rename from oldPath the tasks of the blocks that had that
\* path have the new path, so that no task of the index has oldPath.
C6_RenameRewritesPaths ==
    lastOp.op = "rename" =>
        \A i \in 1..Len(taskblocks) : \A j \in 1..Len(taskblocks[i]) :
            taskblocks[i][j].path # lastOp.path

\* C7 as stated: delete of p removes the blocks whose first task has path p
\* and leaves every other block, a block without tasks among them, in order.
C7_DeleteKeepsEmptyBlocks ==
    [][ StepOf("delete") =>
          taskblocks' =
            SelectSeq(taskblocks,
                      LAMBDA tb : ~(tb # <<>> /\ tb[1].path = Head(mutexQueue).file))
      ]_vars

\* C7 as amended: delete of p, and the removal step of indexFile on p, remove
\* the blocks whose first task has path p and the blocks without tasks, and
\* leave every other block, in order.
C7_DeleteRemovesFileAndEmptyBlocks ==
    [][ /\ StepOf("delete") =>
              taskblocks' = Others(taskblocks, Head(mutexQueue).file)
        /\ StepOfReadDone =>
              LET kept == Others(taskblocks, lastOp'.path)
              IN  /\ Len(taskblocks') >= Len(kept)
                  /\ SubSeq(taskblocks', 1, Len(kept)) = kept
      ]_vars

\* a delete has removed blocks of its path and a block without tasks, and
\* has left a block of another file
C7_Witness ==
    /\ lastOp.op = "delete"
    /\ lastOp.empties > 0
    /\ Len(taskblocks) > 0
    /\ Len(taskblocks) < lastOp.before - lastOp.empties

\* C8 as stated: indexFile on a file whose structural metadata is absent
\* (no file cache, or no list items in it) removes the blocks of the path
\* and publishes a cache update.
C8_AbsentMetadataIsZeroTasks ==
    (lastOp.op = "index" /\ lastOp.cache \in {"absent", "nolist"}) =>
        /\ lastOp.pub
        /\ Slice(taskblocks, lastOp.path) = <<>>

\* C8 as amended: with a file cache that has no list items indexFile removes
\* the blocks of the path and publishes; without a file cache it returns at
\* once, leaving the index as it is and publishing nothing.
C8_NoListItemsIsZeroTasks ==
    [][ /\ (StepOfReadDone /\ lastOp'.cache = "nolist") =>
              /\ taskblocks' = Others(taskblocks, lastOp'.path)
              /\ lastOp'.pub
              /\ lastPub'.state = state
        /\ (StepOf("index") /\ CacheOf(Head(mutexQueue).file) = "absent") =>
              /\ taskblocks' = taskblocks
              /\ lastPub' = lastPub
              /\ reads' = reads
              /\ ~lastOp'.pub
      ]_vars

\* an indexFile on a file without list items has removed blocks
C8_Witness ==
    /\ lastOp.op = "index"
    /\ lastOp.cache = "nolist"
    /\ lastOp.pub
    /\ Len(taskblocks) < lastOp.before - lastOp.empties

\* C9: indexFile(D) run twice in a row on an unchanged D leaves the same
\* blocks for D the second time as the first, and the blocks of every other
\* file as they were.
C9_IndexFileIdempotent ==
    pure.phase = "twice" =>
        \A p \in Paths : Slice(pure.twice, p) = Slice(pure.once, p)

C9_Witness ==
    /\ pure.phase = "twice"
    /\ Len(Slice(pure.twice, PurePath)) >= 2
    /\ Slice(pure.prior, PurePath) # <<>>
    /\ Slice(pure.prior, PurePath) # Slice(pure.twice, PurePath)
    /\ Slice(pure.twice, "b.md") # <<>>

\* the document has a single list section and every list item of it is a
\* checklist item that parses to a Task
OneSectionOfTasks(doc) ==
    /\ doc.cache = "items"
    /\ doc.items # <<>>
    /\ Cardinality({ i \in 1..Len(doc.sections) :
                       doc.sections[i].type \in {"list", "callout"} }) = 1
    /\ \A i \in 1..Len(doc.items) :
          /\ doc.items[i].task
          /\ doc.lines[doc.items[i].line + 1] \in TaskLines
          /\ getSection(doc.items[i].line, doc.sections) # NoSection

\* C10: in one list section a block starts at every task without a parent
\* and holds the tasks with a parent that follow it: the blocks of D, laid end
\* to end, are the tasks of D in source order, each with its declared parent;
\* the first task of a block has no parent and every other task of it has one.
C10_BlocksFollowParents ==
    (pure.phase = "once" /\ OneSectionOfTasks(pure.doc)) =>
        LET blocks == Slice(pure.once, PurePath)
            flat == Flat(blocks)
            items == pure.doc.items
        IN  /\ \A i \in 1..Len(pure.once) : pure.once[i] # <<>>
            /\ Len(flat) = Len(items)
            /\ \A i \in 1..Len(items) :
                  /\ flat[i].description = pure.doc.lines[items[i].line + 1]
                  /\ flat[i].parent = items[i].parent
            /\ \A b \in 1..Len(blocks) : \A j \in 1..Len(blocks[b]) :
                  (j = 1) = (blocks[b][j].parent = NoParent)

\* a task with a child, then a task without one: two blocks
C10_Witness ==
    /\ pure.phase = "once"
    /\ OneSectionOfTasks(pure.doc)
    /\ LET blocks == Slice(pure.once, PurePath)
       IN  /\ Len(blocks) = 2
           /\ Len(blocks[1]) = 2
           /\ blocks[1][2].parent = pure.doc.items[1].line

\* the lines of the checklist items of doc that lie in a list section and
\* whose text parses to a Task
IndexableLines(doc) ==
    IF doc.cache # "items" THEN {}
    ELSE { doc.items[i].line :
             i \in { n \in 1..Len(doc.items) :
                       /\ doc.items[n].task
                       /\ getSection(doc.items[n].line, doc.sections) # NoSection
                       /\ doc.lines[doc.items[n].line + 1] \in TaskLines } }

\* the lines of the checklist items of doc that lie in no list section
NoSectionLines(doc) ==
    IF doc.cache # "items" THEN {}
    ELSE { doc.items[i].line :
             i \in { n \in 1..Len(doc.items) :
                       /\ doc.items[n].task
                       /\ getSection(doc.items[n].line, doc.sections) = NoSection } }

\* the places << block, position >> of blocks that hold the task of path
\* read from line l
PlacesOf(blocks, path, l) ==
    { bj \in (1..Len(blocks)) \X (1..NumLines) :
        /\ bj[2] <= Len(blocks[bj[1]])
        /\ blocks[bj[1]][bj[2]].path = path
        /\ blocks[bj[1]][bj[2]].description = TaskText(l) }

\* C11: when indexFile(D) ends, every checklist item of D that lies in a
\* list section and parses to a Task is in exactly one block of the index,
\* whatever kind of list item comes last in D.
C11_EveryTaskInOneBlock ==
    pure.phase = "once" =>
        \A l \in IndexableLines(pure.doc) :
            Cardinality(PlacesOf(pure.once, PurePath, l)) = 1

\* C12: a checklist item in no list section is left out of the index, the
\* block accumulated before it is stored as it was accumulated (no task read
\* after the item is in it), and every indexable checklist item of the
\* document, those after the item among them, is in the index.
C12_NoSectionItemIsSkipped ==
    pure.phase = "once" =>
        \A k \in NoSectionLines(pure.doc) :
            /\ PlacesOf(pure.once, PurePath, k) = {}
            /\ \A l \in IndexableLines(pure.doc) :
                  /\ PlacesOf(pure.once, PurePath, l) # {}
                  /\ l < k =>
                        \A bj \in PlacesOf(pure.once, PurePath, l) :
                            \A j \in 1..Len(pure.once[bj[1]]) :
                                \A m \in (k + 1)..(NumLines - 1) :
                                    pure.once[bj[1]][j].description # TaskText(m)

\* the line begins with the words of p, the last of them begun only
BeginsWith(line, p) ==
    /\ Len(line) >= Len(p)
    /\ SubSeq(line, 1, Len(p) - 1) = SubSeq(p, 1, Len(p) - 1)
    /\ StartsWith(line[Len(p)], p[Len(p)])

Blank(line) == \A i \in 1..Len(line) : line[i] = Space
Comment(line) == ~Blank(line) /\ StartsWith(Trim(line)[1], "#")

\* the lines the grammar of section 4.2 produces, with the dates, texts and
\* numbers of the model
Productions ==
    StatusLines \cup { << "short" >> } \cup PriorityLines \cup SortLines
    \cup { << keyword >> \o mode \o << DateTexts[d] >> :
             keyword \in { "happens", "starts", "scheduled", "due", "done" },
             mode \in { <<>>, << "before" >>, << "after" >>, << "on" >> },
             d \in 1..Len(DateTexts) }
    \cup TextLines
    \cup { << "limit" >> \o to \o << n >> \o tasks :
             to \in Opt(<< "to" >>), n \in DOMAIN Digits,
             tasks \in { <<>>, << "task" >>, << "tasks" >> } }
    \cup { << "hide" >> \o o : o \in HideOptions }

\* blank, a comment, or a production of the grammar
Conformant(line) == Blank(line) \/ Comment(line) \/ Trim(line) \in Productions

\* neither blank nor a comment, and no production begins the line, whatever
\* date or text the production is given
MatchesNoProduction(line) ==
    /\ ~Blank(line)
    /\ ~Comment(line)
    /\ LET l == Trim(line)
       IN  /\ l \notin StatusLines
           /\ ~BeginsWith(l, << "short" >>)
           /\ \A p \in PriorityLines \cup SortLines
                       \cup { << "hide" >> \o o : o \in HideOptions }
                       \cup { << "limit", n >> : n \in DOMAIN Digits }
                       \cup { << "limit", "to", n >> : n \in DOMAIN Digits } :
                 ~BeginsWith(l, p)
           /\ ~(/\ Len(l) >= 2
                /\ l[1] \in { "happens", "starts", "scheduled", "due", "done" })
           /\ ~(/\ l[1] \in { "path", "description", "heading" }
                /\ \/ Len(l) >= 3 /\ l[2] = "includes"
                   \/ Len(l) >= 5 /\ SubSeq(l, 2, 4) = << "does", "not", "include" >>)

\* C13: after construction the error is empty if every line of the source is
\* blank, a comment or a production of the grammar, and it is not empty if
\* some line matches no production (no production begins it), wherever the
\* line stands: a valid line after it does not clear the error.
C13_ErrorIffUnmatchedLine ==
    query.phase \notin { "off", "new" } =>
        /\ (\A i \in 1..Len(query.source) : Conformant(query.source[i]))
              => query.q.error = NoError
        /\ (\E i \in 1..Len(query.source) : MatchesNoProduction(query.source[i]))
              => query.q.error # NoError

\* a line that matches nothing, then a filter line: the error stays and the
\* filter is compiled
C13_Witness ==
    /\ query.phase = "built"
    /\ Len(query.source) = 2
    /\ MatchesNoProduction(query.source[1])
    /\ Conformant(query.source[2])
    /\ query.q.error # NoError
    /\ Len(query.q.filters) = 1

\* the filters have been run on the blocks
Ran == query.phase \in { "filtered", "raised in filter", "sorted", "raised in sort" }

\* the source is one line of this set
OneLineOf(lines) == Len(query.source) = 1 /\ query.source[1] \in lines

\* C14: no operation of the core raises: for every list of blocks and every
\* Query built without error, calling each compiled filter on each block and
\* calling Sort.by with the sort criteria of the query return normally.
C14_NothingRaises ==
    /\ query.phase \notin { "raised in filter", "raised in sort" }
    /\ Ran => \A i \in 1..Len(query.results) : \A j \in 1..Len(query.results[i]) :
                 ~query.results[i][j].threw

\* the ranking of the priorities: High > Medium > Low > None
Rank ==
    [ p \in Priorities |->
        CASE p = Priority.High -> 3 [] p = Priority.Medium -> 2
          [] p = Priority.Low -> 1 [] p = Priority.None -> 0 ]

WordRank ==
    [ w \in PriorityWords |->
        CASE w = "high" -> 3 [] w = "medium" -> 2 [] w = "low" -> 1 [] w = "none" -> 0 ]

Has(line, word) == \E i \in 1..Len(line) : line[i] = word

\* the priority filter as claim C15 states it
PriorityReference(line, tb) ==
    LET threshold == WordRank[line[Len(line)]]
    IN  IF Has(line, "above")
        THEN \E i \in 1..Len(tb) : Rank[tb[i].priority] > threshold
        ELSE IF Has(line, "below")
        THEN ~ \E i \in 1..Len(tb) : Rank[tb[i].priority] > threshold
        ELSE \A i \in 1..Len(tb) : Rank[tb[i].priority] <= threshold

\* the priority filter with the plain form read as threshold or higher
PriorityAmended(line, tb) ==
    LET threshold == WordRank[line[Len(line)]]
    IN  IF Has(line, "above")
        THEN \E i \in 1..Len(tb) : Rank[tb[i].priority] > threshold
        ELSE IF Has(line, "below")
        THEN ~ \E i \in 1..Len(tb) : Rank[tb[i].priority] > threshold
        ELSE \A i \in 1..Len(tb) : Rank[tb[i].priority] >= threshold

\* C15 as stated: with `above` a block matches iff some task outranks the
\* threshold, with `below` iff no task outranks it, with neither iff every
\* task has the threshold or a lower-ranked priority.
C15_PriorityFilterAsStated ==
    (Ran /\ OneLineOf(PriorityLines)) =>
        \A j \in 1..Len(query.blocks) :
            query.results[1][j] =
                Ret(PriorityReference(query.source[1], query.blocks[j]))

\* C15 as amended: with `above` a block matches iff some task outranks the
\* threshold, with `below` iff no task outranks it, with neither iff every
\* task has the threshold or a higher-ranked priority.
C15_PlainFormIsThresholdOrHigher ==
    (Ran /\ OneLineOf(PriorityLines)) =>
        \A j \in 1..Len(query.blocks) :
            query.results[1][j] =
                Ret(PriorityAmended(query.source[1], query.blocks[j]))

\* `priority is medium` keeps a block of a High and a Medium task
C15_Witness ==
    /\ Ran
    /\ query.source = << << "priority", "is", "medium" >> >>
    /\ Len(query.blocks) = 1
    /\ Len(query.blocks[1]) = 2
    /\ query.blocks[1][1].priority = Priority.High
    /\ query.blocks[1][2].priority = Priority.Medium
    /\ query.results[1][1] = Ret(TRUE)
    /\ query.kept = query.blocks

LinesOf(keywords) == { l \in DateLines : l[1] \in keywords }

\* the day a date line names, and how it asks a date to compare with it
DayOf(line) == CHOOSE d \in 1..Len(DateTexts) : DateTexts[d] = line[Len(line)]

ComparesAsAsked(line, date) ==
    /\ date # NoDate
    /\ IF Has(line, "before") THEN date < DayOf(line)
       ELSE IF Has(line, "after") THEN date > DayOf(line)
       ELSE date = DayOf(line)

HappensDates(task) == { task.startDate, task.scheduledDate, task.dueDate }

\* C16 as stated: for `starts` and for `happens`, with any qualifier and
\* date, a block that holds a task without the date the filter looks at
\* (the start date; start, scheduled and due date) passes the filter.
C16_MissingDateMatches ==
    /\ (Ran /\ OneLineOf(LinesOf({ "starts" }))) =>
          \A j \in 1..Len(query.blocks) :
              (\E i \in 1..Len(query.blocks[j]) :
                   query.blocks[j][i].startDate = NoDate)
                => query.results[1][j] = Ret(TRUE)
    /\ (Ran /\ OneLineOf(LinesOf({ "happens" }))) =>
          \A j \in 1..Len(query.blocks) :
              (\E i \in 1..Len(query.blocks[j]) :
                   HappensDates(query.blocks[j][i]) = { NoDate })
                => query.results[1][j] = Ret(TRUE)

\* C16 as amended: for `starts` a block that holds a task without start
\* date passes, whatever the qualifier and the date are; for `happens` a
\* missing date matches nothing: a block passes iff some task has a start,
\* scheduled or due date that compares as asked with the filter date.
C16_MissingStartMatchesHappensDoesNot ==
    /\ (Ran /\ OneLineOf(LinesOf({ "starts" }))) =>
          \A j \in 1..Len(query.blocks) :
              query.results[1][j] =
                  Ret(\E i \in 1..Len(query.blocks[j]) :
                         \/ query.blocks[j][i].startDate = NoDate
                         \/ ComparesAsAsked(query.source[1],
                                            query.blocks[j][i].startDate))
    /\ (Ran /\ OneLineOf(LinesOf({ "happens" }))) =>
          \A j \in 1..Len(query.blocks) :
              query.results[1][j] =
                  Ret(\E i \in 1..Len(query.blocks[j]) :
                         \E date \in HappensDates(query.blocks[j][i]) :
                             ComparesAsAsked(query.source[1], date))

\* a happens filter has rejected a block that holds a task without dates
\* and a task whose date does not compare
C16_Witness ==
    /\ Ran
    /\ OneLineOf(LinesOf({ "happens" }))
    /\ Len(query.blocks) = 1
    /\ Len(query.blocks[1]) = 2
    /\ HappensDates(query.blocks[1][1]) = { NoDate }
    /\ HappensDates(query.blocks[1][2]) # { NoDate }
    /\ query.results[1][1] = Ret(FALSE)
    /\ query.kept = <<>>

AllDone(tb) == \A i \in 1..Len(tb) : tb[i].status = "Done"
HasDueDate(tb) == \E i \in 1..Len(tb) : tb[i].dueDate # NoDate

\* C18: a query is run by keeping the blocks that pass all filters and
\* sorting them with Sort.by: `done` keeps exactly the blocks all of whose
\* tasks are Done, `not done` those with a task that is not Done, and with
\* `sort by due` the run returns the kept blocks with every block that has a
\* due date before every block that has none, for every list of blocks.
C18_DoneKeptAndSortedByDue ==
    (query.phase \in { "sorted", "raised in sort" } /\ Len(query.source) = 2
        /\ query.source[1] \in { << "done" >>, << "not", "done" >> }
        /\ query.source[2] = << "sort", "by", "due" >>) =>
        /\ query.source[1] = << "done" >> =>
              query.kept = SelectSeq(query.blocks, AllDone)
        /\ query.source[1] = << "not", "done" >> =>
              query.kept = SelectSeq(query.blocks, LAMBDA tb : ~AllDone(tb))
        /\ query.phase = "sorted"
        /\ query.sorted \in Permuted(query.kept)
        /\ \A i, j \in 1..Len(query.sorted) :
              (i < j /\ HasDueDate(query.sorted[j])) => HasDueDate(query.sorted[i])

\* the filter of the same keyword and text and the other method
Opposite(line) ==
    IF line[2] = "includes"
    THEN << line[1], "does", "not", "include", line[3] >>
    ELSE << line[1], "includes", line[5] >>

\* C19: for path, description and heading, every text and every block (a
\* block without tasks and tasks without preceding heading among them), the
\* `does not include` filter returns the negation of what the `includes`
\* filter returns.
C19_DoesNotIncludeNegatesIncludes ==
    (Ran /\ OneLineOf(TextLines)) =>
        \A j \in 1..Len(query.blocks) :
            LET other == Filter(NewQueryFrom(<< Opposite(query.source[1]) >>).filters[1],
                                query.blocks[j])
            IN  /\ ~query.results[1][j].threw
                /\ ~other.threw
                /\ query.results[1][j].value = ~other.value

\* the criteria the source asks for, and after them the fixed ones
CriteriaOf(source) ==
    LET lines == SelectSeq(source, LAMBDA l : l # <<>> /\ l[1] = "sort")
    IN  [ k \in 1..Len(lines) |->
            [property |-> lines[k][3], reverse |-> Len(lines[k]) = 4] ]
        \o << [property |-> "urgency", reverse |-> FALSE],
              [property |-> "status", reverse |-> FALSE],
              [property |-> "due", reverse |-> FALSE],
              [property |-> "priority", reverse |-> FALSE],
              [property |-> "path", reverse |-> FALSE] >>

\* what criterion k alone returns on a and b, the sign flipped on reverse
Alone(criteria, k, a, b) ==
    LET r == Comparator(criteria[k].property, a, b)
    IN  IF r.threw \/ ~criteria[k].reverse THEN r ELSE Ret(-r.value)

Decides(criteria, k, a, b) ==
    Alone(criteria, k, a, b).threw \/ Alone(criteria, k, a, b).value # 0

\* C20: the comparator of Sort.by is the chain of the criteria of the user
\* in the order written, each with its sign flipped on reverse, and after
\* them urgency, status, due date, priority and path: on two blocks it
\* returns what the first criterion that does not return 0 returns (or
\* raises, where that criterion raises), and 0 if every criterion returns 0.
C20_ComparatorIsTheChain ==
    query.phase \in { "sorted", "raised in sort" } =>
        LET criteria == CriteriaOf(query.source)
        IN  \A i, j \in 1..Len(query.kept) :
                LET deciding == { k \in 1..Len(criteria) :
                                    Decides(criteria, k, query.kept[i], query.kept[j]) }
                IN  query.compared[i][j] =
                        IF deciding = {} THEN Ret(0)
                        ELSE Alone(criteria, Min(deciding), query.kept[i], query.kept[j])

\* two criteria of the user, the first equal on the two blocks, the second,
\* reversed, deciding against the path order, before the fixed chain is asked
C20_Witness ==
    /\ query.phase = "sorted"
    /\ query.source = << << "sort", "by", "status" >>,
                         << "sort", "by", "path", "reverse" >> >>
    /\ Len(query.kept) = 2
    /\ query.kept[1] # <<>> /\ query.kept[2] # <<>>
    /\ query.kept[1][1].path = "a.md" /\ query.kept[2][1].path = "b.md"
    /\ urgency(query.kept[1][1]) > urgency(query.kept[2][1])
    /\ query.compared[1][2] = Ret(1)
    /\ query.sorted = << query.kept[2], query.kept[1] >>

\* Sort.by has been called with no criterion of the user
SortedByDefault ==
    query.phase \in { "sorted", "raised in sort" } /\ query.q.sorting = <<>>

\* C21: with no criterion of the user the comparator of Sort.by is a total
\* preorder on all blocks, a block without tasks among them: it returns 0 on
\* a block and itself, results of opposite signs on a pair and the pair
\* turned round, and is transitive; and sorting the sorted list once more
\* gives the same order.
C21_DefaultOrderIsTotalPreorder ==
    SortedByDefault =>
        LET n == Len(query.kept)
            c == query.compared
        IN  /\ query.phase = "sorted"
            /\ \A i, j \in 1..n : ~c[i][j].threw
            /\ \A i \in 1..n : c[i][i].value = 0
            /\ \A i, j \in 1..n : Sign(c[i][j].value) = -Sign(c[j][i].value)
            /\ \A i, j, k \in 1..n :
                  (c[i][j].value <= 0 /\ c[j][k].value <= 0) => c[i][k].value <= 0
            /\ SortOutcomes(query.q.sorting, query.sorted) = { Ret(query.sorted) }

\* the field of a task a date criterion sorts by
FieldOf(property) ==
    CASE property = "start" -> "startDate"
      [] property = "scheduled" -> "scheduledDate"
      [] property = "due" -> "dueDate"
      [] property = "done" -> "doneDate"

DatesOf(tb, field) == { tb[i][field] : i \in 1..Len(tb) } \ { NoDate }

\* the effective date of a block for a criterion: the earliest date of its
\* tasks, for done the latest; NoDate if no task has the date
EffectiveDate(tb, property) ==
    LET dates == DatesOf(tb, FieldOf(property))
    IN  IF dates = {} THEN NoDate
        ELSE IF property = "done" THEN Max(dates) ELSE Min(dates)

DateSortLines ==
    { l \in SortLines : l[3] \in { "start", "scheduled", "due", "done" } }

\* C22: for `sort by start|scheduled|due|done`, plain and with `reverse`,
\* the criterion puts a block whose effective date is present before a block
\* whose effective date is absent, and returns equal on two blocks whose
\* effective dates are the same day.
C22_PresentDateFirstEitherDirection ==
    (query.phase \in { "sorted", "raised in sort" } /\ OneLineOf(DateSortLines)) =>
        \A i, j \in 1..Len(query.kept) :
            LET a == query.kept[i]
                b == query.kept[j]
                property == query.q.sorting[1].property
                r == Compare(query.q.sorting[1], a, b)
            IN  (a # <<>> /\ b # <<>>) =>
                    /\ ~r.threw
                    /\ (EffectiveDate(a, property) # NoDate
                          /\ EffectiveDate(b, property) = NoDate) => r.value < 0
                    /\ EffectiveDate(a, property) = EffectiveDate(b, property)
                          => r.value = 0

\* the order of two effective dates: the present one before the absent one,
\* the earlier day before the later one
ByEffectiveDate(x, y) ==
    IF x = y THEN 0
    ELSE IF y = NoDate THEN -1
    ELSE IF x = NoDate THEN 1
    ELSE IF x < y THEN -1 ELSE 1

\* C23: `sort by done` orders the blocks by their effective done date, the
\* latest done date of the tasks of the block, as `sort by start`,
\* `scheduled` and `due` order them by the earliest date of the tasks, for
\* every list of blocks none of which is without tasks.
C23_SortByDoneUsesLatestDoneDate ==
    (/\ query.phase \in { "sorted", "raised in sort" }
     /\ OneLineOf({ l \in DateSortLines : Len(l) = 3 })
     /\ \A i \in 1..Len(query.kept) : query.kept[i] # <<>>) =>
        /\ query.phase = "sorted"
        /\ \A i, j \in 1..Len(query.kept) :
              LET property == query.q.sorting[1].property
              IN  Compare(query.q.sorting[1], query.kept[i], query.kept[j]) =
                      Ret(ByEffectiveDate(EffectiveDate(query.kept[i], property),
                                          EffectiveDate(query.kept[j], property)))

\* C24: Sort.by is a pure function: it returns the sorted list and leaves
\* the list it was given with the same blocks in the same order, and the
\* task sequences of the blocks as they were.
C24_SortByLeavesItsArgument ==
    query.phase \in { "sorted", "raised in sort" } =>
        /\ query.given = query.kept
        /\ query.phase = "sorted" => query.sorted \in Permuted(query.kept)

\* the lines of the source that, parsed by a new Query, compile a filter and
\* record no error
AcceptedFilterLines(source) ==
    { i \in 1..Len(source) :
        LET q == ParseLine(NewQuery, Trim(source[i]))
        IN  q.error = NoError /\ Len(q.filters) = 1 }

\* C30: a line that records a parse error compiles nothing: for every query
\* text the number of compiled filters is the number of filter lines that
\* were accepted without an error; a date filter line whose date text is
\* not read as a date appends no filter.
C30_ErrorLineCompilesNothing ==
    query.phase \notin { "off", "new" } =>
        Len(query.q.filters) = Cardinality(AcceptedFilterLines(query.source))

\* C27: every block indexFile stores holds tasks of one list section: the
\* tasks of a block have the same sectionStart, also in a document of
\* several list sections where a block is being accumulated when the scan
\* moves to the next section.
C27_BlockOfOneSection ==
    pure.phase = "once" =>
        \A k \in 1..Len(pure.once) :
            \A i, j \in 1..Len(pure.once[k]) :
                pure.once[k][i].sectionStart = pure.once[k][j].sectionStart

\* C29: after any sequence of indexFile, delete and rename the index holds
\* no block without tasks and no block more than once: no block is empty and
\* no task of a file is at two places of the index.
C29_NoEmptyNoRepeatedBlock ==
    /\ \A i \in 1..Len(taskblocks) : taskblocks[i] # <<>>
    /\ \A p \in Paths : \A l \in 0..(NumLines - 1) :
          Cardinality(PlacesOf(taskblocks, p, l)) <= 1

\* C28: a changed or created notification for a document followed by a
\* deleted notification for it: when the last of the operations they started
\* ends, the index holds no block of that path, whether the read of the
\* indexFile ends before the delete runs or after it.
C28_DeletedFileLeavesNoBlock ==
    [][ /\ ( /\ StepOfReadDone
             /\ Quiescent'
             /\ reads[1].owner = 0
             /\ ~reads[1].live
             /\ docs[reads[1].file] = NoFile )
            => Slice(taskblocks', reads[1].file) = <<>>
        /\ ( StepOf("delete") /\ Quiescent' )
            => Slice(taskblocks', Head(mutexQueue).file) = <<>>
      ]_vars

(***************************************************************************)
(* Progress. The callbacks the mutex holds are started in turn by the      *)
(* promise chain of async-mutex, and the continuation of Promise.all is a  *)
(* microtask: each runs once it can. The host settles every cachedRead.    *)
(* Nothing obliges the host to send a notification.                        *)
(***************************************************************************)
\* A step that takes a read off the pending ones is the end of ReadDone or
\* of ReadFail: no other action shortens reads.
Settle == \E i \in 1..Len(reads) : reads' = Remove(reads, i)

FairSpec ==
    /\ Spec
    /\ WF_vars(LoadBegin)
    /\ WF_vars(LoadFinish)
    /\ WF_vars(RunIndexFile)
    /\ WF_vars(RunDelete)
    /\ WF_vars(RunRename)
    /\ WF_reads(Settle)

\* a read has just been rejected: the proviso of C26 excludes it
Rejected == lastOp.op = "rejected"

\* a load has begun and has not ended
Loading == mutexHolder # 0

\* the load begun last has just ended: the state is Warm and the update
\* published last carries Warm, with no indexFile of that load left waiting
WarmPublished ==
    /\ state = "Warm"
    /\ lastPub.state = "Warm"
    /\ lastOp.op = "load"
    /\ \A i \in 1..Len(reads) : reads[i].owner # counts.loadsBegun

\* C26: unless a read is rejected, a load that has begun leads to the state
\* Warm and a published update that carries Warm, at which moment no
\* indexFile of the load is still waiting, and the callbacks queued behind
\* the load are all run to their end.
C26_LoadReachesWarm ==
    /\ Loading ~> (WarmPublished \/ Rejected)
    /\ (Loading /\ mutexQueue # <<>>) ~> (Quiescent \/ Rejected)

\* a load has ended Warm with the callback of a notification queued behind it
C26_Witness ==
    /\ WarmPublished
    /\ mutexHolder = 0
    /\ mutexQueue # <<>>
    /\ Head(mutexQueue).op # "load"

\* C25: submitting the edit form hands over exactly one updated task; its
\* done date is the day of the submission when the status chosen is Done and
\* is absent when the status chosen is To Do, Blocked or In Progress, also
\* for a task that was done before.
C25_SubmitSetsDoneDateByStatus ==
    form.phase = "submitted" =>
        /\ Len(form.updated) = 1
        /\ form.editableTask.status = "done" =>
              /\ form.updated[1].status = "Done"
              /\ form.updated[1].doneDate = form.now
        /\ form.editableTask.status \in { "to do", "blocked", "in progress" } =>
              form.updated[1].doneDate = NoDate

\* a task done on an earlier day has been set to another status and has
\* lost its done date
C25_Witness ==
    /\ form.phase = "submitted"
    /\ form.task.status = "Done"
    /\ form.task.doneDate # NoDate
    /\ form.task.doneDate < form.now
    /\ form.editableTask.status = "blocked"
    /\ form.updated[1].status = "Blocked"
    /\ form.updated[1].doneDate = NoDate

====
